---- MODULE Spec2Model ----
(***************************************************************************)
(* Fall-detection decision engine of ImJ9y/AWS-INRIX-Hack-Pack-2025.       *)
(*                                                                         *)
(* The module models SimpleFallDetector of src/backend/simple_backend.py   *)
(* (the keypoint + bbox variant) and, where a definition says so, the      *)
(* pose variant of src/AWS-INRIX-Hack-Pack-2025/backend/simple_backend.py. *)
(*                                                                         *)
(* Numbers.  Wall-clock time is counted in whole seconds.  Real-valued     *)
(* quantities (velocities, angles, scores, the frame rate, the severity of  *)
(* the pose variant) are fixed point, in hundredths: 750 is 7.5.           *)
(***************************************************************************)
EXTENDS Integers, Sequences, FiniteSets, TLC

VARIABLES
    clock,                  \* time.time(), seconds
    last_ts,                \* self.last_ts
    fps,                    \* self.fps, hundredths of a frame per second
    fall_duration_frames,   \* self.fall_duration_frames
    still_frames_needed,    \* self.still_frames_needed
    frame_count,            \* self.frame_count
    emergency_active,       \* self.emergency_active
    emergency_start_time,   \* self.emergency_start_time (NoneTime for None)
    max_severity,           \* self.max_severity, the stored peak
    total_detections,       \* self.total_detections
    current_people_count,   \* self.current_people_count
    aws_services,           \* self.aws_services is not None
    emergency_data,         \* the event process_frame returned last
    store_calls,            \* the storage calls process_frame made last
    frame_status,           \* current_person_status of the last frame
    scorer_in,              \* arguments of a call of a severity scorer
    scorer_out,             \* the severity the call returned
    variant,                \* which simple_backend.py runs: "backend" or "pose"
    person_fall_patterns,   \* self.person_fall_patterns
    called,                 \* the tracks the current frame has processed
    pattern_call,           \* the last call of analyze_temporal_pattern
    emitted,                \* per track: 2.5 scores since it became horizontal
    cycle_verified,         \* emergency_verified events since the last alert
    dip,                    \* observer of a normal-severity dip
    post,                   \* observer of what follows a verification
    persisted,              \* every frame since the last alert detected a fall
    twin,                   \* a second detector, fed the same detections
    person_positions,       \* self.person_positions
    person_velocities,      \* self.person_velocities
    person_accelerations,   \* self.person_accelerations
    person_sizes,           \* self.person_sizes
    person_head_positions,  \* self.person_head_positions
    person_angles,          \* self.person_angles
    person_aspect_ratios,   \* self.person_aspect_ratios
    person_center_positions,\* self.person_center_positions
    ema_vnorm,              \* self.ema_vnorm
    ema_angle,              \* self.ema_angle
    person_motion_states,   \* self.person_motion_states
    detections,             \* the detection records of the last frame
    frame_error,            \* the exception process_frame raised, or "none"
    static_run,             \* per track: consecutive motionless observations
    emergency_severity_threshold, \* pose variant: self.emergency_severity_threshold
    gemini_analyzer,        \* pose variant: the module's gemini_analyzer is not None
    total_emergencies,      \* pose variant: self.total_emergencies
    last_emergency_data,    \* pose variant: self.last_emergency_data
    last_ai_analysis,       \* pose variant: self.last_ai_analysis
    analysis_threads,       \* pose variant: running analyze_with_gemini threads
    completed,              \* the analyze_with_gemini thread that finished last
    signal_call,            \* the last call of a per-track signal function
    camera_active,          \* self.camera_active
    cap,                    \* self.cap: "None", or the capture's state
    requests,               \* the start_camera and stop_camera calls in progress
    issued,                 \* the calls made so far
    camera_threads,         \* the camera_loop threads started so far
    stop_returned,          \* a stop_camera returned, no start_camera since
    further_frames          \* per thread: process_frame steps since then

emergencyVars == <<clock, last_ts, fps, fall_duration_frames, still_frames_needed,
                   frame_count, emergency_active, emergency_start_time,
                   max_severity, total_detections, current_people_count,
                   aws_services, emergency_data,
                   store_calls, frame_status>>

observerVars == <<cycle_verified, dip, post, persisted>>

scorerVars == <<scorer_in, scorer_out>>

patternVars == <<variant, person_fall_patterns, called, pattern_call, emitted>>

twinVars == <<twin>>

trackVars == <<person_positions, person_velocities, person_accelerations,
               person_sizes, person_head_positions, person_angles,
               person_aspect_ratios, person_center_positions,
               ema_vnorm, ema_angle, person_motion_states,
               detections, frame_error, static_run>>

geminiVars == <<emergency_severity_threshold, gemini_analyzer,
                total_emergencies, last_emergency_data, last_ai_analysis,
                analysis_threads, completed>>

signalVars == <<signal_call>>

cameraVars == <<camera_active, cap, requests, issued, camera_threads,
                stop_returned, further_frames>>

vars == <<emergencyVars, observerVars, scorerVars, patternVars, twinVars,
          trackVars, geminiVars, signalVars, cameraVars>>

-----------------------------------------------------------------------------
(* Program constants                                                       *)

NoneTime == -1

FALL_THRESHOLD_VELOCITY == 500

FALL_THRESHOLD_ANGLE == 7500

EMERGENCY_SEVERITY_THRESHOLD == 7

VERIFICATION_TIME_SECONDS == 5

RecoveryDwellSeconds == 3

SuspiciousSeverity == 3

InitialFps == 3000

-----------------------------------------------------------------------------
(* Bounds of the model                                                     *)

MaxClock == 8

MaxDt == 1

MaxLag == 1

MaxPeople == 1

MaxPatternFrames == 15

\* SpecPatternLive: frame numbers, counters and clock readings from which on
\* every comparison of analyze_temporal_pattern has a settled outcome.
MaxLiveFrames == 20

MaxTrackFrames == 10

\* SpecHistory: frames of one track, and frames of it without keypoints.
MaxHistoryFrames == 22

MaxDropouts == 2

\* SpecPose: frames of the pose variant.
MaxPoseFrames == 60

\* SpecGemini: frames of the pose variant with the analysis threads.
MaxGeminiFrames == 13

\* SpecTracks: frames that show one of two tracked persons.
MaxTracksFrames == 6

\* SpecSignals: the longest history a per-track signal function is called on.
MaxSignalLen == 5

\* SpecCamera: the start_camera and stop_camera calls made, how many of
\* them run at once, and the frames the camera delivers.
MaxRequests == 3

MaxInFlight == 2

MaxCameraFrames == 2

-----------------------------------------------------------------------------
(* Small helpers                                                           *)

Max(a, b) == IF a >= b THEN a ELSE b

Min(a, b) == IF a <= b THEN a ELSE b

RECURSIVE SumOver(_, _)
SumOver(f, n) == IF n = 0 THEN 0 ELSE f[n] + SumOver(f, n - 1)

-----------------------------------------------------------------------------
(* SimpleFallDetector.process_frame, src/backend/simple_backend.py:        *)
(* the frame-level part.  A detection is the record process_frame appends  *)
(* to `detections` for one tracked person.                                 *)

\* lines 519-527: frame counter, smoothed frame rate and the frame-rate
\* derived thresholds.  dt = max(1e-3, now - last_ts); a difference of 0
\* seconds gives 1/dt = 1000.
UpdateFps(s, now) ==
    LET d    == now - s.last_ts
        inv  == IF d <= 0 THEN 100000 ELSE 100 \div d
        nfps == (9 * s.fps + inv) \div 10
    IN  [s EXCEPT !.frame_count = s.frame_count + 1,
                  !.fps = nfps,
                  !.last_ts = now,
                  !.fall_duration_frames = Max(3, (nfps * 8) \div 1000),
                  !.still_frames_needed = Max(6, nfps \div 100)]

\* lines 542 and 650: the frame-level maximum starts from the stored peak.
RECURSIVE FrameMaxSeverity(_, _)
FrameMaxSeverity(start, dets) ==
    IF dets = <<>> THEN start
    ELSE FrameMaxSeverity(Max(start, Head(dets).severity), Tail(dets))

\* lines 686-694: the stored peak.
UpdatePeak(peak, frameMax) ==
    IF frameMax > peak THEN frameMax
    ELSE IF frameMax < peak /\ frameMax <= 1 THEN Max(1, peak - 1)
    ELSE peak

\* lines 699-708: current_person_status.
PersonStatus(dets) ==
    IF \E i \in 1..Len(dets) : dets[i].severity >= EMERGENCY_SEVERITY_THRESHOLD
        THEN "fall_detected"
    ELSE IF \E i \in 1..Len(dets) : dets[i].severity > SuspiciousSeverity
        THEN "suspicious"
    ELSE "normal"

\* lines 458-485: store_emergency_video; s3ok is whether put_object succeeds.
StoreEmergencyVideo(aws, s3ok) ==
    IF ~aws THEN "demo-video-url"
    ELSE IF s3ok THEN "s3-url" ELSE "None"

\* lines 487-515: save_emergency_event; dbok is whether put_item succeeds.
\* The exception of a failed call is caught at line 514 and the function
\* returns None in every case.
SaveEmergencyEvent(aws, dbok) ==
    IF ~aws THEN "demo"
    ELSE IF dbok THEN "saved" ELSE "failed"

\* What the AWS calls of one frame do: with AWS services each of put_object
\* and put_item succeeds or raises; without them no call is made.
AwsOutcomes(aws) ==
    IF aws THEN [s3 : BOOLEAN, dynamodb : BOOLEAN]
    ELSE {[s3 |-> TRUE, dynamodb |-> TRUE]}

\* lines 716-723: the storage calls of the frame that raises the emergency.
AlertStores(aws, aws_ok, dets, frameMax) ==
    LET url == StoreEmergencyVideo(aws, aws_ok.s3)
        n   == Len(dets)
    IN  IF n = 0
        THEN << [op |-> "store_emergency_video", video_url |-> url] >>
        ELSE << [op |-> "store_emergency_video", video_url |-> url],
                [op |-> "save_emergency_event", severity |-> frameMax,
                 velocity |-> SumOver([i \in 1..n |-> dets[i].velocity], n) \div n,
                 angle |-> SumOver([i \in 1..n |-> dets[i].angle], n) \div n,
                 video_url |-> url,
                 result |-> SaveEmergencyEvent(aws, aws_ok.dynamodb)] >>

\* VerificationStep with the window compared by > instead of >=.
VerificationStepStrict(s, frameMax, t) ==
    LET elapsed_time == t - s.emergency_start_time
    IN  IF elapsed_time > VERIFICATION_TIME_SECONDS
        THEN [emergency_active |-> s.emergency_active,
              emergency_start_time |-> s.emergency_start_time,
              emergency_data |-> [type |-> "emergency_verified",
                                  severity |-> frameMax,
                                  elapsed_time |-> elapsed_time],
              store_calls |-> <<>>]
        ELSE [emergency_active |-> s.emergency_active,
              emergency_start_time |-> s.emergency_start_time,
              emergency_data |-> [type |-> "emergency_verifying",
                                  severity |-> frameMax,
                                  remaining_time |->
                                      VERIFICATION_TIME_SECONDS - elapsed_time],
              store_calls |-> <<>>]

\* lines 735-759: an emergency is active and a fall is detected.
VerificationStep(s, frameMax, t) ==
    LET elapsed_time == t - s.emergency_start_time
    IN  IF elapsed_time >= VERIFICATION_TIME_SECONDS
        THEN [emergency_active |-> s.emergency_active,
              emergency_start_time |-> s.emergency_start_time,
              emergency_data |-> [type |-> "emergency_verified",
                                  severity |-> frameMax,
                                  elapsed_time |-> elapsed_time],
              store_calls |-> <<>>]
        ELSE [emergency_active |-> s.emergency_active,
              emergency_start_time |-> s.emergency_start_time,
              emergency_data |-> [type |-> "emergency_verifying",
                                  severity |-> frameMax,
                                  remaining_time |->
                                      VERIFICATION_TIME_SECONDS - elapsed_time],
              store_calls |-> <<>>]

\* RecoveryStep that keeps the start time when it clears the emergency.
RecoveryStepKeepsStart(s, frameMax, t) ==
    LET elapsed_time == t - s.emergency_start_time
    IN  IF ~s.emergency_active
        THEN [emergency_active |-> s.emergency_active,
              emergency_start_time |-> s.emergency_start_time,
              emergency_data |-> [type |-> "none"],
              store_calls |-> <<>>]
        ELSE IF elapsed_time > RecoveryDwellSeconds
        THEN [emergency_active |-> FALSE,
              emergency_start_time |-> s.emergency_start_time,
              emergency_data |-> [type |-> "emergency_cleared",
                                  recovery_time |-> elapsed_time],
              store_calls |-> <<>>]
        ELSE [emergency_active |-> s.emergency_active,
              emergency_start_time |-> s.emergency_start_time,
              emergency_data |-> [type |-> "monitoring_recovery",
                                  severity |-> frameMax,
                                  elapsed_time |-> elapsed_time],
              store_calls |-> <<>>]

\* lines 760-782: every detected person is normal.
RecoveryStep(s, frameMax, t) ==
    LET elapsed_time == t - s.emergency_start_time
    IN  IF ~s.emergency_active
        THEN [emergency_active |-> s.emergency_active,
              emergency_start_time |-> s.emergency_start_time,
              emergency_data |-> [type |-> "none"],
              store_calls |-> <<>>]
        ELSE IF elapsed_time > RecoveryDwellSeconds
        THEN [emergency_active |-> FALSE,
              emergency_start_time |-> NoneTime,
              emergency_data |-> [type |-> "emergency_cleared",
                                  recovery_time |-> elapsed_time],
              store_calls |-> <<>>]
        ELSE [emergency_active |-> s.emergency_active,
              emergency_start_time |-> s.emergency_start_time,
              emergency_data |-> [type |-> "monitoring_recovery",
                                  severity |-> frameMax,
                                  elapsed_time |-> elapsed_time],
              store_calls |-> <<>>]

\* EmergencyCheck with the exception of a failed put_object escaping
\* store_emergency_video: the frame that raises the emergency has already set
\* the state (lines 712-713) but produces no event.
EmergencyCheckStoreRaises(s, dets, frameMax, t, aws_ok) ==
    LET status == PersonStatus(dets)
    IN  IF status = "fall_detected"
        THEN IF ~s.emergency_active
             THEN IF StoreEmergencyVideo(s.aws_services, aws_ok.s3) = "None"
                  THEN [emergency_active |-> TRUE,
                        emergency_start_time |-> t,
                        emergency_data |-> [type |-> "error"],
                        store_calls |-> <<>>]
                  ELSE [emergency_active |-> TRUE,
                        emergency_start_time |-> t,
                        emergency_data |->
                            [type |-> "emergency_alert",
                             severity |-> frameMax,
                             verification_time |-> VERIFICATION_TIME_SECONDS,
                             video_url |-> StoreEmergencyVideo(s.aws_services, aws_ok.s3)],
                        store_calls |-> AlertStores(s.aws_services, aws_ok, dets, frameMax)]
             ELSE VerificationStep(s, frameMax, t)
        ELSE IF status = "normal"
        THEN RecoveryStep(s, frameMax, t)
        ELSE [emergency_active |-> s.emergency_active,
              emergency_start_time |-> s.emergency_start_time,
              emergency_data |-> [type |-> "none"],
              store_calls |-> <<>>]

\* lines 710-782: the emergency verification state machine of one frame.
\* t is the reading of time.time() the branch taken makes.
EmergencyCheck(s, dets, frameMax, t, aws_ok) ==
    LET status == PersonStatus(dets)
    IN  IF status = "fall_detected"
        THEN IF ~s.emergency_active
             THEN [emergency_active |-> TRUE,
                   emergency_start_time |-> t,
                   emergency_data |->
                       [type |-> "emergency_alert",
                        severity |-> frameMax,
                        verification_time |-> VERIFICATION_TIME_SECONDS,
                        video_url |-> StoreEmergencyVideo(s.aws_services, aws_ok.s3)],
                   store_calls |-> AlertStores(s.aws_services, aws_ok, dets, frameMax)]
             ELSE VerificationStep(s, frameMax, t)
        ELSE IF status = "normal"
        THEN RecoveryStep(s, frameMax, t)
        ELSE [emergency_active |-> s.emergency_active,
              emergency_start_time |-> s.emergency_start_time,
              emergency_data |-> [type |-> "none"],
              store_calls |-> <<>>]

\* ProcessFrameResult that raises an alert on every frame with a track at the
\* threshold, whether or not an emergency is active.
ProcessFrameResultRearm(s, dets, now, t, aws_ok) ==
    LET s1 == UpdateFps(s, now)
        frameMax == FrameMaxSeverity(s.max_severity, dets)
        e  == EmergencyCheck([s1 EXCEPT !.emergency_active = FALSE], dets, frameMax, t, aws_ok)
    IN  [s1 EXCEPT !.current_people_count = Len(dets),
                   !.total_detections = s.total_detections + 1,
                   !.max_severity = UpdatePeak(s.max_severity, frameMax),
                   !.emergency_active = e.emergency_active,
                   !.emergency_start_time = e.emergency_start_time,
                   !.emergency_data = e.emergency_data,
                   !.store_calls = e.store_calls,
                   !.frame_status = PersonStatus(dets)]

\* lines 517-807: process_frame from the detections of the frame on.  now is
\* the clock reading of line 522 and t the later reading of the emergency
\* section.
ProcessFrameResult(s, dets, now, t, aws_ok) ==
    LET s1       == UpdateFps(s, now)
        frameMax == FrameMaxSeverity(s.max_severity, dets)
        e        == EmergencyCheck(s1, dets, frameMax, t, aws_ok)
    IN  [s1 EXCEPT !.current_people_count = Len(dets),
                   !.total_detections = s.total_detections + 1,
                   !.max_severity = UpdatePeak(s.max_severity, frameMax),
                   !.emergency_active = e.emergency_active,
                   !.emergency_start_time = e.emergency_start_time,
                   !.emergency_data = e.emergency_data,
                   !.store_calls = e.store_calls,
                   !.frame_status = PersonStatus(dets)]

\* The detector object as a record of its fields.
Detector ==
    [last_ts |-> last_ts, fps |-> fps,
     fall_duration_frames |-> fall_duration_frames,
     still_frames_needed |-> still_frames_needed,
     frame_count |-> frame_count,
     emergency_active |-> emergency_active,
     emergency_start_time |-> emergency_start_time,
     max_severity |-> max_severity,
     total_detections |-> total_detections,
     current_people_count |-> current_people_count,
     aws_services |-> aws_services,
     emergency_data |-> emergency_data,
     store_calls |-> store_calls,
     frame_status |-> frame_status]

\* lines 30-85: __init__.
InitDetector(aws) ==
    [last_ts |-> 0, fps |-> InitialFps,
     fall_duration_frames |-> Max(3, (InitialFps * 8) \div 1000),
     still_frames_needed |-> Max(6, InitialFps \div 100),
     frame_count |-> 0,
     emergency_active |-> FALSE,
     emergency_start_time |-> NoneTime,
     max_severity |-> 1,
     total_detections |-> 0,
     current_people_count |-> 0,
     aws_services |-> aws,
     emergency_data |-> [type |-> "none"],
     store_calls |-> <<>>,
     frame_status |-> "normal"]

\* The detector's fields take the values of record r.
SetDetector(r) ==
    /\ last_ts' = r.last_ts
    /\ fps' = r.fps
    /\ fall_duration_frames' = r.fall_duration_frames
    /\ still_frames_needed' = r.still_frames_needed
    /\ frame_count' = r.frame_count
    /\ emergency_active' = r.emergency_active
    /\ emergency_start_time' = r.emergency_start_time
    /\ max_severity' = r.max_severity
    /\ total_detections' = r.total_detections
    /\ current_people_count' = r.current_people_count
    /\ aws_services' = r.aws_services
    /\ emergency_data' = r.emergency_data
    /\ store_calls' = r.store_calls
    /\ frame_status' = r.frame_status

-----------------------------------------------------------------------------
(* The severity scorers                                                    *)

\* Python's int(): truncation toward zero of n/d, d > 0.
Trunc(n, d) == IF n >= 0 THEN n \div d ELSE -((-n) \div d)

\* src/backend/simple_backend.py lines 397-408: int(velocity_points).
\* velocity_points is num/500 with num = min(1500, 3 (velocity - 750)), times
\* 1.3 with the acceleration bonus.
VelocityPoints(velocity, acceleration) ==
    LET num == IF velocity > (FALL_THRESHOLD_VELOCITY * 3) \div 2
               THEN Min(1500, 3 * (velocity - (FALL_THRESHOLD_VELOCITY * 3) \div 2))
               ELSE 0
    IN  IF velocity > FALL_THRESHOLD_VELOCITY /\ acceleration > 100
        THEN Trunc(13 * num, 5000)
        ELSE Trunc(num, 500)

\* AnglePoints that scores the absolute angle, whatever the angular
\* velocity.
AnglePointsAbsolute(angle, angular_velocity) ==
    LET num == IF angle > FALL_THRESHOLD_ANGLE
               THEN Min(3000, angle - FALL_THRESHOLD_ANGLE)
               ELSE 0
    IN  IF angle > FALL_THRESHOLD_ANGLE /\ angular_velocity > 1000
        THEN Trunc(11 * num, 10000)
        ELSE IF angular_velocity < 500
        THEN Trunc(3 * num, 10000)
        ELSE Trunc(num, 1000)

\* lines 410-426: int(angle_points).  angle_points is num/1000 with
\* num = min(3000, angle - 7500), times 1.1 or 0.3.
AnglePoints(angle, angular_velocity) ==
    LET num == IF angular_velocity > 500 /\ angle > FALL_THRESHOLD_ANGLE
               THEN Min(3000, angle - FALL_THRESHOLD_ANGLE)
               ELSE 0
    IN  IF angle > FALL_THRESHOLD_ANGLE /\ angular_velocity > 1000
        THEN Trunc(11 * num, 10000)
        ELSE IF angular_velocity < 500
        THEN Trunc(3 * num, 10000)
        ELSE Trunc(num, 1000)

\* lines 403-404, 418-419, 435-438: the count of strong indicators.
StrongIndicators(velocity, angle, angular_velocity, head_score, shape_score, impact_score, pattern_score) ==
      (IF velocity > (FALL_THRESHOLD_VELOCITY * 3) \div 2
          /\ velocity > FALL_THRESHOLD_VELOCITY * 2 THEN 1 ELSE 0)
    + (IF angular_velocity > 500 /\ angle > FALL_THRESHOLD_ANGLE
          /\ angle > FALL_THRESHOLD_ANGLE + 1500
          /\ angular_velocity > 1500 THEN 1 ELSE 0)
    + (IF head_score > 150 THEN 1 ELSE 0)
    + (IF shape_score > 100 THEN 1 ELSE 0)
    + (IF impact_score > 200 THEN 1 ELSE 0)
    + (IF pattern_score > 100 THEN 1 ELSE 0)

\* A floor that already gives way to two strong indicators.
HardFloorTwo(velocity, strong, sum) ==
    IF velocity < 100 /\ strong < 2 THEN 1 ELSE sum

\* lines 447-453: a static person with fewer than 3 strong indicators is
\* forced to severity 1.
HardFloor(velocity, strong, sum) ==
    IF velocity < 100 /\ strong < 3 THEN 1 ELSE sum

\* lines 392-453: the severity before the final clamp.
RawSeverity(velocity, acceleration, angle, angular_velocity, head_score, shape_score, impact_score, pattern_score) ==
    LET head_points    == IF head_score > 150
                          THEN Min(2, Trunc(head_score, 100)) ELSE 0
        shape_points   == IF shape_score > 100
                          THEN Min(2, Trunc(shape_score, 100)) ELSE 0
        impact_points  == IF impact_score > 200
                          THEN Min(2, Trunc(impact_score, 100)) ELSE 0
        pattern_points == IF pattern_score > 100
                          THEN Min(1, Trunc(pattern_score, 100)) ELSE 0
        strong == StrongIndicators(velocity, angle, angular_velocity,
                                   head_score, shape_score, impact_score,
                                   pattern_score)
        sum    == 1 + VelocityPoints(velocity, acceleration)
                    + AnglePoints(angle, angular_velocity)
                    + head_points + shape_points + impact_points
                    + pattern_points
                    + (IF strong >= 3 THEN 1 ELSE 0)
    IN  HardFloor(velocity, strong, sum)

\* AssessSeverity without the final clamp.
AssessSeverityUnclamped(velocity, acceleration, angle, angular_velocity, head_score, shape_score, impact_score, pattern_score) ==
    RawSeverity(velocity, acceleration, angle, angular_velocity,
                head_score, shape_score, impact_score, pattern_score)

\* lines 385-456: assess_severity (person_id is not read).
AssessSeverity(velocity, acceleration, angle, angular_velocity, head_score, shape_score, impact_score, pattern_score) ==
    Min(10, Max(1, RawSeverity(velocity, acceleration, angle, angular_velocity,
                               head_score, shape_score, impact_score,
                               pattern_score)))

\* AssessSeverityPose with the torso thresholds 80, 70, 60 read as 8, 7, 6.
AssessSeverityPoseAngleSlip(velocity, angle, pid, v_norm, torso_angle, pattern_score, near_floor) ==
    LET a == 100
              + (IF v_norm > 80 THEN 200 ELSE IF v_norm > 50 THEN 100 ELSE 0)
              + (IF torso_angle > 800 THEN 250
                 ELSE IF torso_angle > 700 THEN 150
                 ELSE IF torso_angle > 600 THEN 50 ELSE 0)
              + pattern_score
              + (IF near_floor /\ torso_angle > 7000 THEN 100 ELSE 0)
        b == a - (IF torso_angle < 4500 /\ v_norm > 60 THEN 100 ELSE 0)
        c == b - (IF torso_angle > 6000 /\ v_norm < 30 THEN 50 ELSE 0)
    IN  Max(100, Min(1000, c))

\* src/AWS-INRIX-Hack-Pack-2025/backend/simple_backend.py lines 154-193:
\* assess_severity_pose; the result is a float, here in hundredths.
AssessSeverityPose(velocity, angle, pid, v_norm, torso_angle, pattern_score, near_floor) ==
    LET a == 100
              + (IF v_norm > 80 THEN 200 ELSE IF v_norm > 50 THEN 100 ELSE 0)
              + (IF torso_angle > 8000 THEN 250
                 ELSE IF torso_angle > 7000 THEN 150
                 ELSE IF torso_angle > 6000 THEN 50 ELSE 0)
              + pattern_score
              + (IF near_floor /\ torso_angle > 7000 THEN 100 ELSE 0)
        b == a - (IF torso_angle < 4500 /\ v_norm > 60 THEN 100 ELSE 0)
        c == b - (IF torso_angle > 6000 /\ v_norm < 30 THEN 50 ELSE 0)
    IN  Max(100, Min(1000, c))

-----------------------------------------------------------------------------
(* The temporal pattern state machine                                      *)

\* The record a track gets on its first call (line 346).
NewPattern == [stage |-> "none", t0 |-> 0, k |-> 0, m |-> 0]

\* src/backend/simple_backend.py lines 377-383: the reset of a track that has
\* been still for too long, and the score 0.0.
StillnessReset(st, v_norm, fc, sfn) ==
    IF v_norm < 20 /\ st.stage # "none" /\ fc - st.t0 > sfn * 2
    THEN [st |-> [st EXCEPT !.stage = "none", !.k = 0, !.m = 0], score |-> 0]
    ELSE [st |-> st, score |-> 0]

\* analyze_temporal_pattern with the first rule also accepting an already
\* horizontal torso: the track goes from none straight to horizontal.
AnalyzeTemporalPatternSkip(st, v_norm, torso_angle, fc, fdf, sfn) ==
    IF st.stage = "none" /\ v_norm > 80
    THEN [st |-> [stage |-> IF torso_angle > 7000 THEN "horizontal"
                            ELSE "descending",
                  t0 |-> fc, k |-> 0, m |-> 0],
          score |-> 0]
    ELSE IF st.stage = "descending"
    THEN IF torso_angle > 7000
         THEN IF fc - st.t0 <= fdf /\ st.k + 1 >= 2
              THEN [st |-> [st EXCEPT !.k = st.k + 1, !.stage = "horizontal"],
                    score |-> 150]
              ELSE StillnessReset([st EXCEPT !.k = st.k + 1], v_norm, fc, sfn)
         ELSE IF fc - st.t0 > fdf
              THEN StillnessReset([st EXCEPT !.stage = "none", !.k = 0],
                                  v_norm, fc, sfn)
              ELSE StillnessReset(st, v_norm, fc, sfn)
    ELSE IF st.stage = "horizontal"
    THEN IF st.m + 1 >= sfn
         THEN [st |-> [st EXCEPT !.m = st.m + 1], score |-> 250]
         ELSE StillnessReset([st EXCEPT !.m = st.m + 1], v_norm, fc, sfn)
    ELSE StillnessReset(st, v_norm, fc, sfn)

\* A window that never closes.
WithinFallWindowAlways(st, fc, fdf) == TRUE

\* src/backend/simple_backend.py line 362: the frame is inside the
\* fall-duration window that opened when the track entered descending.
WithinFallWindow(st, fc, fdf) == fc - st.t0 <= fdf

\* src/backend/simple_backend.py lines 339-383: analyze_temporal_pattern on
\* the record st of the track, in frame fc, with the thresholds
\* fall_duration_frames fdf and still_frames_needed sfn.  The result is the
\* new record and the returned score.
AnalyzeTemporalPatternFn(st, v_norm, torso_angle, fc, fdf, sfn) ==
    IF st.stage = "none" /\ v_norm > 80
    THEN [st |-> [stage |-> "descending", t0 |-> fc, k |-> 0, m |-> 0],
          score |-> 0]
    ELSE IF st.stage = "descending"
    THEN IF torso_angle > 7000
         THEN IF WithinFallWindow(st, fc, fdf) /\ st.k + 1 >= 2
              THEN [st |-> [st EXCEPT !.k = st.k + 1, !.stage = "horizontal"],
                    score |-> 150]
              ELSE StillnessReset([st EXCEPT !.k = st.k + 1], v_norm, fc, sfn)
         ELSE IF fc - st.t0 > fdf
              THEN StillnessReset([st EXCEPT !.stage = "none", !.k = 0],
                                  v_norm, fc, sfn)
              ELSE StillnessReset(st, v_norm, fc, sfn)
    ELSE IF st.stage = "horizontal"
    THEN IF st.m + 1 >= sfn
         THEN [st |-> [st EXCEPT !.m = st.m + 1], score |-> 250]
         ELSE StillnessReset([st EXCEPT !.m = st.m + 1], v_norm, fc, sfn)
    ELSE StillnessReset(st, v_norm, fc, sfn)

\* src/AWS-INRIX-Hack-Pack-2025/backend/simple_backend.py lines 125-152:
\* analyze_temporal_pattern of the pose variant.
AnalyzeTemporalPatternPoseFn(st, v_norm, torso_angle, fc, fdf, sfn) ==
    IF st.stage = "none" /\ v_norm > 80
    THEN [st |-> [st EXCEPT !.stage = "descending", !.t0 = fc], score |-> 0]
    ELSE IF st.stage = "descending"
    THEN IF torso_angle > 7000
         THEN IF fc - st.t0 <= fdf /\ st.k + 1 >= 2
              THEN [st |-> [st EXCEPT !.k = st.k + 1, !.stage = "horizontal"],
                    score |-> 0]
              ELSE [st |-> [st EXCEPT !.k = st.k + 1], score |-> 0]
         ELSE IF fc - st.t0 > fdf
              THEN [st |-> [st EXCEPT !.stage = "none", !.k = 0], score |-> 0]
              ELSE [st |-> st, score |-> 0]
    ELSE IF st.stage = "horizontal"
    THEN IF st.m + 1 >= sfn
         THEN [st |-> [st EXCEPT !.m = st.m + 1], score |-> 250]
         ELSE [st |-> [st EXCEPT !.m = st.m + 1], score |-> 0]
    ELSE [st |-> st, score |-> 0]

-----------------------------------------------------------------------------
(* Observers: what the claims about whole cycles need to remember.  They   *)
(* read the frame's inputs and results and never influence the detector.   *)

\* emergency_verified events since the last emergency_alert (2 stands for
\* two or more).
NextCycleVerified(c, event) ==
    IF event.type \in {"emergency_alert", "emergency_cleared"} THEN 0
    ELSE IF event.type = "emergency_verified" THEN Min(2, c + 1)
    ELSE c

NoDip == [phase |-> "none", t0 |-> NoneTime, start0 |-> NoneTime,
          cleared |-> FALSE, short |-> FALSE]

\* A dip is a run of frames of status normal that starts while the emergency
\* is active; it ends "rose" on the first frame of status fall_detected.
NextDip(d, s, r, t) ==
    IF r.frame_status = "normal"
    THEN IF d.phase = "dipping"
         THEN [d EXCEPT !.cleared =
                   d.cleared \/ r.emergency_data.type = "emergency_cleared"]
         ELSE IF s.emergency_active
         THEN [phase |-> "dipping", t0 |-> t,
               start0 |-> s.emergency_start_time,
               cleared |-> r.emergency_data.type = "emergency_cleared",
               short |-> FALSE]
         ELSE NoDip
    ELSE IF r.frame_status = "fall_detected" /\ d.phase = "dipping"
    THEN [d EXCEPT !.phase = "rose", !.short = (t - d.t0 < RecoveryDwellSeconds)]
    ELSE NoDip

\* Whether every frame since the last emergency_alert, that frame included,
\* had some track at or above the threshold.
NextPersisted(p, r) ==
    IF r.emergency_data.type = "emergency_alert" THEN TRUE
    ELSE p /\ r.frame_status = "fall_detected"

NoPost == [phase |-> "none", rise_time |-> NoneTime, early |-> FALSE]

\* After an emergency_verified: "verified", then "dropped" once a frame has no
\* severity at the threshold, then "rose" on the next frame that has one.
\* rise_time is the time of that rise; early says that an emergency_verified
\* followed it by less than the verification time.
NextPost(p, r, t) ==
    IF p.phase = "dropped" /\ r.frame_status = "fall_detected"
    THEN [phase |-> "rose", rise_time |-> t, early |-> FALSE]
    ELSE IF r.emergency_data.type = "emergency_verified"
    THEN [phase |-> "verified", rise_time |-> NoneTime,
          early |-> (p.rise_time # NoneTime
                     /\ t - p.rise_time < VERIFICATION_TIME_SECONDS)]
    ELSE IF p.phase \in {"verified", "dropped"}
    THEN [p EXCEPT !.phase = "dropped", !.early = FALSE]
    ELSE [p EXCEPT !.phase = "none", !.early = FALSE]

-----------------------------------------------------------------------------
(* The frame loop at the level of the detections of each frame             *)

\* Detection records as lines 653-666 build them, one per severity class.
DetectionSamples ==
    { [severity |-> 1,  velocity |-> 0,    angle |-> 0],
      [severity |-> 4,  velocity |-> 1250, angle |-> 0],
      [severity |-> 8,  velocity |-> 2500, angle |-> 8500] }

\* The detection lists of a frame: at most MaxPeople tracked persons.
DetectionLists ==
    UNION { [1..n -> DetectionSamples] : n \in 0..MaxPeople }

\* The state after SimpleFallDetector() has been constructed.
InitEmergency ==
    /\ clock = 0
    /\ \E aws \in BOOLEAN :
         LET r == InitDetector(aws)
         IN  /\ last_ts = r.last_ts
             /\ fps = r.fps
             /\ fall_duration_frames = r.fall_duration_frames
             /\ still_frames_needed = r.still_frames_needed
             /\ frame_count = r.frame_count
             /\ emergency_active = r.emergency_active
             /\ emergency_start_time = r.emergency_start_time
             /\ max_severity = r.max_severity
             /\ total_detections = r.total_detections
             /\ current_people_count = r.current_people_count
             /\ aws_services = r.aws_services
             /\ emergency_data = r.emergency_data
             /\ store_calls = r.store_calls
             /\ frame_status = r.frame_status

InitObservers ==
    /\ cycle_verified = 0
    /\ dip = NoDip
    /\ post = NoPost
    /\ persisted = TRUE

NotScored == [done |-> FALSE, severity |-> 0]

InitScorerIdle ==
    /\ scorer_in = [fn |-> "none"]
    /\ scorer_out = NotScored

NoPatternCall == [pid |-> 0, stage |-> "none", v_norm |-> 0, torso_angle |-> 0, score |-> 0]

InitPattern(variants) ==
    /\ variant \in variants
    /\ person_fall_patterns = << >>
    /\ called = {}
    /\ pattern_call = NoPatternCall
    /\ emitted = << >>

\* A second SimpleFallDetector() with the same configuration.
InitTwin == twin = [clock |-> 0, detector |-> InitDetector(aws_services)]

\* lines 41-58: the per-track maps start empty.
InitTrack ==
    /\ person_positions = << >>
    /\ person_velocities = << >>
    /\ person_accelerations = << >>
    /\ person_sizes = << >>
    /\ person_head_positions = << >>
    /\ person_angles = << >>
    /\ person_aspect_ratios = << >>
    /\ person_center_positions = << >>
    /\ ema_vnorm = << >>
    /\ ema_angle = << >>
    /\ person_motion_states = << >>
    /\ detections = << >>
    /\ frame_error = "none"
    /\ static_run = << >>

\* lines 55-56: the camera is off and no call has been made.
InitCamera ==
    /\ camera_active = FALSE
    /\ cap = "None"
    /\ requests = << >>
    /\ issued = 0
    /\ camera_threads = << >>
    /\ stop_returned = FALSE
    /\ further_frames = << >>

\* No per-track signal function has been called.
NoSignalCall == [fn |-> "none", history |-> << >>, result |-> << >>]

InitSignal == signal_call = NoSignalCall

\* The fields of the pose variant's detector after construction (lines
\* 62-64, 95, 100-101) with the default threshold and no analyzer loaded
\* (lines 39-41); no analyze_with_gemini thread runs.
NoAnalysis == [kind |-> "None"]

NoEmergencyData == [severity |-> 0, velocity |-> 0, angle |-> 0, timestamp |-> NoneTime]

NoThread == [severity |-> 0, velocity |-> 0, angle |-> 0, dispatched |-> NoEmergencyData, pc |-> "none"]

InitGemini ==
    /\ emergency_severity_threshold = EMERGENCY_SEVERITY_THRESHOLD
    /\ gemini_analyzer = FALSE
    /\ total_emergencies = 0
    /\ last_emergency_data = NoEmergencyData
    /\ last_ai_analysis = NoAnalysis
    /\ analysis_threads = << >>
    /\ completed = NoThread

Init ==
    /\ InitEmergency
    /\ InitObservers
    /\ InitScorerIdle
    /\ InitPattern({"backend"})
    /\ InitTwin
    /\ InitTrack
    /\ InitGemini
    /\ InitSignal
    /\ InitCamera

\* One iteration of camera_loop (lines 821-829): dt seconds after the last
\* clock reading the frame is read and process_frame starts; the emergency
\* section reads the clock lag seconds later.
ProcessFrame(dets, dt, lag, aws_ok) ==
    /\ clock + dt + lag <= MaxClock
    /\ LET now == clock + dt
           t   == now + lag
       IN  \E r \in {ProcessFrameResult(Detector, dets, now, t, aws_ok)} :
               /\ clock' = t
               /\ SetDetector(r)
               /\ cycle_verified' = NextCycleVerified(cycle_verified, r.emergency_data)
               /\ dip' = NextDip(dip, Detector, r, t)
               /\ post' = NextPost(post, r, t)
               /\ persisted' = NextPersisted(persisted, r)
    /\ UNCHANGED <<scorerVars, patternVars, twinVars, trackVars,
                   geminiVars, signalVars,
                   cameraVars>>

\* What the AWS calls of the frame do for detector s: only a frame that
\* raises the emergency makes any (lines 711-723).
FrameAwsOutcomes(s, dets) ==
    IF PersonStatus(dets) = "fall_detected" /\ ~s.emergency_active
    THEN AwsOutcomes(s.aws_services)
    ELSE AwsOutcomes(FALSE)

Next ==
    \E dets \in DetectionLists, dt \in 1..MaxDt, lag \in 0..MaxLag :
        \E aws_ok \in FrameAwsOutcomes(Detector, dets) :
            ProcessFrame(dets, dt, lag, aws_ok)

Spec == Init /\ [][Next]_vars

-----------------------------------------------------------------------------
(* Claims about the emergency verification state machine (Spec)            *)

\* C1: between an emergency_alert and the next emergency_cleared at most one
\* emergency_verified event is emitted, however long the severity stays at
\* or above the threshold.
C1_VerifiedOncePerCycle == cycle_verified <= 1

\* C2: emergency_verified is emitted only by a frame that started with the
\* emergency active, detects a fall and reads an elapsed time of at least
\* the verification time; such a frame with a smaller elapsed time emits
\* emergency_verifying with the positive remaining time; such a frame with
\* an elapsed time of at least the verification time emits
\* emergency_verified.
C2_VerifiedExactlyAtWindow ==
    [][ LET elapsed == clock' - emergency_start_time
        IN  /\ emergency_data'.type = "emergency_verified"
                => /\ emergency_active
                   /\ frame_status' = "fall_detected"
                   /\ elapsed >= VERIFICATION_TIME_SECONDS
            /\ (emergency_active /\ frame_status' = "fall_detected"
                    /\ elapsed < VERIFICATION_TIME_SECONDS)
                => /\ emergency_data'.type = "emergency_verifying"
                   /\ emergency_data'.remaining_time
                          = VERIFICATION_TIME_SECONDS - elapsed
                   /\ emergency_data'.remaining_time > 0
            /\ (emergency_active /\ frame_status' = "fall_detected"
                    /\ elapsed >= VERIFICATION_TIME_SECONDS)
                => emergency_data'.type = "emergency_verified" ]_vars

\* A frame verifies the emergency exactly when the window has elapsed, after
\* frames that were still verifying.
C2_Witness ==
    /\ emergency_data.type = "emergency_verified"
    /\ emergency_data.elapsed_time = VERIFICATION_TIME_SECONDS
    /\ cycle_verified = 1

\* C3: a dip to normal severity shorter than the recovery dwell, followed by
\* a new rise to the threshold, emits no emergency_cleared and leaves
\* emergency_active and emergency_start_time as they were.
C3_NoClearInShortDip ==
    (dip.phase = "rose" /\ dip.short)
        => /\ ~dip.cleared
           /\ emergency_active
           /\ emergency_start_time = dip.start0

\* C6: after an emergency_verified, once every severity has dropped below
\* the threshold, the next rise to the threshold emits emergency_alert with
\* a newly recorded start time, and no emergency_verified follows that rise
\* by less than the verification time.
C6_RetriggerAfterVerified ==
    /\ post.phase = "rose"
           => /\ emergency_data.type = "emergency_alert"
              /\ emergency_start_time = clock
    /\ ~post.early

\* C10: store_emergency_video and save_emergency_event are called only by a
\* frame that emits emergency_verified.
C10_StoreOnlyOnVerified ==
    store_calls # <<>> => emergency_data.type = "emergency_verified"

\* C12: a frame that starts with the emergency active and on which no track
\* reaches the threshold emits emergency_cleared or monitoring_recovery.
C12_ActiveBelowThresholdEmits ==
    [][ (emergency_active /\ frame_status' # "fall_detected")
            => emergency_data'.type \in {"emergency_cleared", "monitoring_recovery"}
      ]_vars

C24_StartTimeFromRaise ==
    [][ /\ (emergency_start_time' # NoneTime) <=> emergency_active'
        /\ emergency_data'.type = "emergency_alert"
               => emergency_start_time' = clock'
        /\ emergency_data'.type = "emergency_cleared"
               => emergency_start_time' = NoneTime
        /\ emergency_data'.type \notin {"emergency_alert", "emergency_cleared"}
               => emergency_start_time' = emergency_start_time ]_vars

\* A second emergency_verified of a cycle still measures from the raise.
C24_Witness ==
    /\ emergency_data.type = "emergency_verified"
    /\ emergency_active
    /\ emergency_data.elapsed_time = clock - emergency_start_time
    /\ emergency_data.elapsed_time > VERIFICATION_TIME_SECONDS

\* C13: emergency_verified is emitted only if every frame since the cycle's
\* emergency_alert had some track at or above the threshold.
C13_VerifiedOnlyIfPersisted ==
    emergency_data.type = "emergency_verified" => persisted

-----------------------------------------------------------------------------
(* The severity scorers as pure functions (SpecScorer): the arguments of   *)
(* one call are drawn by the initial state, the call is the only step.     *)

VelocityGrid == {0, 99, 100, 501, 750, 751, 1000, 1001, 1250, 6000}

AccelerationGrid == {-200, 100, 101}

AngleGrid == {0, 4400, 7500, 7501, 8500, 9000}

AngularVelocityGrid == {-1000, 500, 501, 1001, 1501}

HeadScoreGrid == {0, 150, 151, 300}

ShapeScoreGrid == {0, 100, 200}

ImpactScoreGrid == {0, 200, 300}

PatternScoreGrid == {0, 150, 250}

VNormGrid == {-100, 0, 29, 30, 50, 51, 60, 61, 80, 81, 300}

TorsoAngleGrid == {0, 3000, 4499, 4500, 6000, 6001, 7000, 7001, 8000, 8001, 9000}

BboxScorerInputs ==
    [fn : {"assess_severity"}, velocity : VelocityGrid,
     acceleration : AccelerationGrid, angle : AngleGrid,
     angular_velocity : AngularVelocityGrid, head_score : HeadScoreGrid,
     shape_score : ShapeScoreGrid, impact_score : ImpactScoreGrid,
     pattern_score : PatternScoreGrid]

PoseScorerInputs ==
    [fn : {"assess_severity_pose"}, v_norm : VNormGrid,
     torso_angle : TorsoAngleGrid, pattern_score : PatternScoreGrid,
     near_floor : BOOLEAN]

InitScorer ==
    /\ InitEmergency
    /\ InitObservers
    /\ InitPattern({"backend"})
    /\ InitTwin
    /\ InitTrack
    /\ InitGemini
    /\ InitSignal
    /\ InitCamera
    /\ scorer_in \in BboxScorerInputs \cup PoseScorerInputs
    /\ scorer_out = NotScored

\* One call of assess_severity of src/backend/simple_backend.py.
CallAssessSeverity ==
    /\ scorer_in.fn = "assess_severity"
    /\ ~scorer_out.done
    /\ scorer_out' =
         [done |-> TRUE,
          severity |-> AssessSeverity(scorer_in.velocity, scorer_in.acceleration,
                                      scorer_in.angle, scorer_in.angular_velocity,
                                      scorer_in.head_score, scorer_in.shape_score,
                                      scorer_in.impact_score,
                                      scorer_in.pattern_score)]
    /\ UNCHANGED <<scorer_in, emergencyVars, observerVars, patternVars,
                   twinVars, trackVars,
                   geminiVars, signalVars,
                   cameraVars>>

\* One call of assess_severity_pose of the pose variant; v_norm * 10 stands
\* for the velocity argument and torso_angle for the angle argument, as at
\* lines 534-556, and neither is read.
CallAssessSeverityPose ==
    /\ scorer_in.fn = "assess_severity_pose"
    /\ ~scorer_out.done
    /\ scorer_out' =
         [done |-> TRUE,
          severity |-> AssessSeverityPose(scorer_in.v_norm * 10,
                                          scorer_in.torso_angle, 1,
                                          scorer_in.v_norm, scorer_in.torso_angle,
                                          scorer_in.pattern_score,
                                          scorer_in.near_floor)]
    /\ UNCHANGED <<scorer_in, emergencyVars, observerVars, patternVars,
                   twinVars, trackVars,
                   geminiVars, signalVars,
                   cameraVars>>

NextScorer == CallAssessSeverity \/ CallAssessSeverityPose

SpecScorer == InitScorer /\ [][NextScorer]_vars

\* C4: the severity a scorer returns is within [1, 10]: an integer of 1..10
\* from assess_severity, a value of 1.0 to 10.0 from assess_severity_pose.
C4_SeverityInRange ==
    scorer_out.done =>
        IF scorer_in.fn = "assess_severity"
        THEN scorer_out.severity \in 1..10
        ELSE scorer_out.severity >= 100 /\ scorer_out.severity <= 1000

\* A call whose additive score exceeds 10 returns 10.
C4_Witness ==
    /\ scorer_out.done
    /\ scorer_in.fn = "assess_severity"
    /\ scorer_out.severity = 10
    /\ RawSeverity(scorer_in.velocity, scorer_in.acceleration, scorer_in.angle,
                   scorer_in.angular_velocity, scorer_in.head_score,
                   scorer_in.shape_score, scorer_in.impact_score,
                   scorer_in.pattern_score) > 10

\* The strong indicators assess_severity counted for the call's arguments.
ScorerStrong ==
    StrongIndicators(scorer_in.velocity, scorer_in.angle,
                     scorer_in.angular_velocity, scorer_in.head_score,
                     scorer_in.shape_score, scorer_in.impact_score,
                     scorer_in.pattern_score)

\* The call of assess_severity has returned.
ScorerDone == scorer_out.done /\ scorer_in.fn = "assess_severity"

\* C27: assess_severity returns exactly 1 whenever velocity < 1.0 and fewer
\* than 3 strong indicators are present.
C27_HardFloor ==
    (ScorerDone /\ scorer_in.velocity < 100 /\ ScorerStrong < 3)
        => scorer_out.severity = 1

\* A static person with a steep, fast-changing angle and a head drop: two
\* strong indicators, points that add up to more than 1, severity 1.
C27_Witness ==
    /\ ScorerDone
    /\ scorer_in.velocity = 99
    /\ ScorerStrong = 2
    /\ AnglePoints(scorer_in.angle, scorer_in.angular_velocity) = 1
    /\ scorer_in.head_score = 300
    /\ scorer_out.severity = 1

\* C28: with angular_velocity <= 5 the angle adds no points and is not
\* counted as a strong indicator: the points are 0 and the count and the
\* returned severity are those of the same call with angle 0.
C28_OrientationAloneAddsNothing ==
    (ScorerDone /\ scorer_in.angular_velocity <= 500)
        => /\ AnglePoints(scorer_in.angle, scorer_in.angular_velocity) = 0
           /\ ScorerStrong =
                  StrongIndicators(scorer_in.velocity, 0,
                                   scorer_in.angular_velocity,
                                   scorer_in.head_score, scorer_in.shape_score,
                                   scorer_in.impact_score, scorer_in.pattern_score)
           /\ scorer_out.severity =
                  AssessSeverity(scorer_in.velocity, scorer_in.acceleration, 0,
                                 scorer_in.angular_velocity,
                                 scorer_in.head_score, scorer_in.shape_score,
                                 scorer_in.impact_score, scorer_in.pattern_score)

\* A fast person at 90 degrees whose angle changes by exactly 5 degrees a
\* frame: the severity comes from the velocity alone.
C28_Witness ==
    /\ ScorerDone
    /\ scorer_in.angle = 9000
    /\ scorer_in.angular_velocity = 500
    /\ scorer_in.velocity = 1250
    /\ scorer_in.head_score = 0
    /\ scorer_in.shape_score = 0
    /\ scorer_in.impact_score = 0
    /\ scorer_in.pattern_score = 0
    /\ scorer_out.severity = 1 + VelocityPoints(scorer_in.velocity, scorer_in.acceleration)
    /\ scorer_out.severity > 1

\* C29: assess_severity returns a severity above 1 only for an input with
\* at least two strong indicators.
C29_RaisedOnlyByMultipleIndicators ==
    (ScorerDone /\ scorer_out.severity > 1) => ScorerStrong >= 2

\* C9: assess_severity_pose returns less than the emergency threshold 7 for
\* every input with torso_angle < 45.
C9_SitDownBelowThreshold ==
    (scorer_out.done /\ scorer_in.fn = "assess_severity_pose"
        /\ scorer_in.torso_angle < 4500)
        => scorer_out.severity < EMERGENCY_SEVERITY_THRESHOLD * 100

\* A fast descent with an upright torso and a complete fall pattern: the
\* sit/stand rule takes 1.0 off and the severity is 4.5.
C9_Witness ==
    /\ scorer_out.done
    /\ scorer_in.fn = "assess_severity_pose"
    /\ scorer_in.torso_angle < 4500
    /\ scorer_in.v_norm > 80
    /\ scorer_in.pattern_score = 250
    /\ scorer_out.severity = 450

-----------------------------------------------------------------------------
(* The temporal pattern state machine, call by call (SpecPattern)          *)

PatternTracks == {1}

PatternVNorms == {0, 25, 100}

PatternAngles == {0, 8000}

\* The temporal-pattern record of track p (absent tracks read as a new record).
Pattern(p) ==
    IF p \in DOMAIN person_fall_patterns THEN person_fall_patterns[p]
    ELSE NewPattern

Emitted(p) == IF p \in DOMAIN emitted THEN emitted[p] ELSE 0

\* The scores of 2.5 a track has received since it last became horizontal
\* (2 stands for two or more).
NextEmitted(e, old, res) ==
    IF res.score = 250 THEN Min(2, e + 1)
    ELSE IF old.stage # "horizontal" /\ res.st.stage = "horizontal" THEN 0
    ELSE e

\* process_frame lines 519-527 (both variants): the next frame begins dt
\* seconds after the last one.
BeginFrame(dt) ==
    /\ frame_count < MaxPatternFrames
    /\ \E r \in {UpdateFps(Detector, clock + dt)} :
           /\ clock' = clock + dt
           /\ last_ts' = r.last_ts
           /\ fps' = r.fps
           /\ fall_duration_frames' = r.fall_duration_frames
           /\ still_frames_needed' = r.still_frames_needed
           /\ frame_count' = r.frame_count
    /\ called' = {}
    /\ UNCHANGED <<emergency_active, emergency_start_time, max_severity,
                   total_detections, current_people_count, aws_services,
                   emergency_data, store_calls, frame_status,
                   variant, person_fall_patterns, pattern_call, emitted,
                   observerVars, scorerVars, twinVars, trackVars,
                   geminiVars, signalVars,
                   cameraVars>>

PatternCall(p, v_norm, torso_angle, res) ==
    /\ person_fall_patterns' =
           [q \in DOMAIN person_fall_patterns \cup {p} |->
               IF q = p THEN res.st ELSE person_fall_patterns[q]]
    /\ pattern_call' = [pid |-> p, stage |-> Pattern(p).stage, v_norm |-> v_norm,
                        torso_angle |-> torso_angle, score |-> res.score]
    /\ emitted' = [q \in DOMAIN emitted \cup {p} |->
                      IF q = p THEN NextEmitted(Emitted(p), Pattern(p), res)
                      ELSE emitted[q]]
    /\ called' = called \cup {p}
    /\ UNCHANGED <<emergencyVars, variant, observerVars, scorerVars,
                   twinVars, trackVars,
                   geminiVars, signalVars,
                   cameraVars>>

\* The call of analyze_temporal_pattern at line 645 of
\* src/backend/simple_backend.py for track p of the current frame.
AnalyzeTemporalPattern(p, v_norm, torso_angle) ==
    /\ variant = "backend"
    /\ frame_count > 0
    /\ p \notin called
    /\ PatternCall(p, v_norm, torso_angle,
                   AnalyzeTemporalPatternFn(Pattern(p), v_norm, torso_angle,
                                            frame_count, fall_duration_frames,
                                            still_frames_needed))

\* The call of analyze_temporal_pattern at line 525 of the pose variant.
AnalyzeTemporalPatternPose(p, v_norm, torso_angle) ==
    /\ variant = "pose"
    /\ frame_count > 0
    /\ p \notin called
    /\ PatternCall(p, v_norm, torso_angle,
                   AnalyzeTemporalPatternPoseFn(Pattern(p), v_norm, torso_angle,
                                                frame_count, fall_duration_frames,
                                                still_frames_needed))

InitPatternSpec ==
    /\ InitEmergency
    /\ InitObservers
    /\ InitScorerIdle
    /\ InitPattern({"backend", "pose"})
    /\ InitTwin
    /\ InitTrack
    /\ InitGemini
    /\ InitSignal
    /\ InitCamera

NextPattern ==
    \/ \E dt \in 1..MaxDt : BeginFrame(dt)
    \/ \E p \in PatternTracks, v \in PatternVNorms, a \in PatternAngles :
           AnalyzeTemporalPattern(p, v, a)
    \/ \E p \in PatternTracks, v \in PatternVNorms, a \in PatternAngles :
           AnalyzeTemporalPatternPose(p, v, a)

SpecPattern == InitPatternSpec /\ [][NextPattern]_vars

\* The calls of src/backend/simple_backend.py alone.
NextPatternBackend ==
    \/ \E dt \in 1..MaxDt : BeginFrame(dt)
    \/ \E p \in PatternTracks, v \in PatternVNorms, a \in PatternAngles :
           AnalyzeTemporalPattern(p, v, a)

\* analyze_temporal_pattern makes no AWS call: one construction suffices.
InitPatternBackend == Init /\ ~aws_services

SpecPatternBackend == InitPatternBackend /\ [][NextPatternBackend]_vars

\* C5: analyze_temporal_pattern returns the score 2.5 at most once per
\* none -> descending -> horizontal cycle of a track.
C5_PatternScoreOncePerCycle ==
    \A p \in PatternTracks : Emitted(p) <= 1

\* C5 for the variant of src/backend/simple_backend.py alone.
C5_OncePerCycleBackend ==
    variant = "backend" => C5_PatternScoreOncePerCycle

\* C5 for the pose variant alone.
C5_OncePerCyclePose ==
    variant = "pose" => C5_PatternScoreOncePerCycle

\* Whether the current step is a call of analyze_temporal_pattern for track p.
CallOf(p) == p \in called' /\ p \notin called

\* The frames since track p entered descending, as the call reads them.
Elapsed(p) == frame_count - Pattern(p).t0

\* C14: in src/backend/simple_backend.py the stage of a track changes only
\* none -> descending, descending -> horizontal, descending -> none by the
\* timeout, or descending/horizontal -> none by the safety reset; never
\* none -> horizontal or horizontal -> descending.
C14_StageTransitions ==
    [][ \A p \in PatternTracks :
          LET old == Pattern(p).stage
              new == Pattern(p)'.stage
              timeout == /\ old = "descending"
                         /\ pattern_call'.torso_angle <= 7000
                         /\ Elapsed(p) > fall_duration_frames
              reset   == /\ old \in {"descending", "horizontal"}
                         /\ pattern_call'.v_norm < 20
                         /\ Elapsed(p) > still_frames_needed * 2
          IN  \/ new = old
              \/ old = "none" /\ new = "descending"
              \/ old = "descending" /\ new = "horizontal"
              \/ new = "none" /\ (timeout \/ reset)
      ]_vars

\* A track of src/backend/simple_backend.py that the safety reset has just
\* brought back from horizontal to none.
C14_Witness ==
    /\ variant = "backend"
    /\ 1 \in called
    /\ pattern_call.stage = "horizontal"
    /\ Pattern(1).stage = "none"
    /\ pattern_call.v_norm < 20
    /\ Elapsed(1) > still_frames_needed * 2

\* C25: a track of src/backend/simple_backend.py moves from descending to
\* horizontal only on a call with frame_count - t0 <= fall_duration_frames,
\* and that call returns 1.5.
C25_HorizontalWithinWindow ==
    [][ \A p \in PatternTracks :
          (Pattern(p).stage = "descending" /\ Pattern(p)'.stage = "horizontal")
              => /\ Elapsed(p) <= fall_duration_frames
                 /\ pattern_call'.score = 150
      ]_vars

\* A call with a torso angle above 70 counted its second such frame after
\* the window had elapsed, and the track stayed in descending.
C25_Witness ==
    /\ 1 \in called
    /\ pattern_call.stage = "descending"
    /\ pattern_call.torso_angle > 7000
    /\ Pattern(1).stage = "descending"
    /\ Pattern(1).k = 2
    /\ Elapsed(1) > fall_duration_frames

\* C26: a call of analyze_temporal_pattern returns 2.5 only for a track that
\* is still: its v_norm on that call, one of the counted frames, does not
\* exceed the velocity threshold of 0.8.
C26_ScoreOnlyWhenStill ==
    pattern_call.score = 250 => pattern_call.v_norm <= 80

\* C15: a track moves from descending to horizontal only on a call whose
\* torso angle exceeds 70 and whose preceding call for the track also had a
\* torso angle above 70.
C15_TwoConsecutiveHorizontalFrames ==
    [][ \A p \in PatternTracks :
          (Pattern(p).stage = "descending" /\ Pattern(p)'.stage = "horizontal")
              => /\ pattern_call'.torso_angle > 7000
                 /\ pattern_call.pid = p
                 /\ pattern_call.torso_angle > 7000
      ]_vars

\* C16: a call for a track that is in descending with more than
\* fall_duration_frames frames elapsed since it entered descending leaves the
\* track in none, whatever the torso angle and v_norm of the call.
C16_DescendingTimeout ==
    [][ \A p \in PatternTracks :
          (CallOf(p) /\ Pattern(p).stage = "descending"
                     /\ Elapsed(p) > fall_duration_frames)
              => Pattern(p)'.stage = "none"
      ]_vars

-----------------------------------------------------------------------------
(* The temporal pattern state machine of a camera that never stops         *)
(* (SpecPatternLive)                                                       *)
(*                                                                         *)
(* frame_count, t0, k, m and the clock grow for as long as the camera      *)
(* runs.  analyze_temporal_pattern reads frame_count and t0 only through   *)
(* frame_count - t0, process_frame reads the clock only through            *)
(* now - last_ts, and k and m are only compared with 2 and with            *)
(* still_frames_needed.  Once frame_count has reached                      *)
(* MaxLiveFrames the frames are renumbered so that the current one is      *)
(* frame MaxLiveFrames, and a difference or counter above MaxLiveFrames    *)
(* is kept as MaxLiveFrames: after that many frames of a second or more    *)
(* still_frames_needed * 2 is 12 and fall_duration_frames is 3.            *)

\* A frame number or clock reading after renumbering by shift.
Renumber(n, shift) == Max(0, n - shift)

\* One iteration of camera_loop (lines 820-829) on a frame that shows track
\* 1: process_frame updates the frame rate (lines 519-527) and calls
\* analyze_temporal_pattern for the track (line 645).
LiveFrame(dt, v_norm, torso_angle) ==
    /\ variant = "backend"
    /\ \E r \in {UpdateFps(Detector, clock + dt)} :
         LET shift == Max(0, r.frame_count - MaxLiveFrames)
             late  == Max(0, r.last_ts - MaxLiveFrames)
             fc    == Renumber(r.frame_count, shift)
             old   == Pattern(1)
             st    == [old EXCEPT !.t0 = Renumber(old.t0, shift)]
             res   == AnalyzeTemporalPatternFn(st, v_norm, torso_angle, fc, r.fall_duration_frames, r.still_frames_needed)
             new   == [res.st EXCEPT !.k = Min(res.st.k, MaxLiveFrames),
                                     !.m = Min(res.st.m, MaxLiveFrames)]
         IN  /\ clock' = Renumber(r.last_ts, late)
             /\ last_ts' = Renumber(r.last_ts, late)
             /\ fps' = r.fps
             /\ fall_duration_frames' = r.fall_duration_frames
             /\ still_frames_needed' = r.still_frames_needed
             /\ frame_count' = fc
             /\ person_fall_patterns' = << new >>
             /\ pattern_call' = [pid |-> 1, stage |-> old.stage, v_norm |-> v_norm,
                                 torso_angle |-> torso_angle, score |-> res.score]
             /\ emitted' = << NextEmitted(Emitted(1), old, res) >>
             /\ called' = {1}
    /\ UNCHANGED <<emergency_active, emergency_start_time, max_severity,
                   total_detections, current_people_count, aws_services,
                   emergency_data, store_calls, frame_status, variant,
                   observerVars, scorerVars, twinVars, trackVars,
                   geminiVars, signalVars,
                   cameraVars>>

NextPatternLive ==
    \E dt \in 1..MaxDt, v \in PatternVNorms, a \in PatternAngles :
        LiveFrame(dt, v, a)

\* camera_loop runs for as long as camera_active is set (line 821): frames
\* keep coming.
\* The detector runs without AWS services: the pattern state machine never
\* reads them.
InitPatternLive == Init /\ ~aws_services

SpecPatternLive ==
    InitPatternLive /\ [][NextPatternLive]_vars /\ WF_vars(NextPatternLive)

\* C17: if from some frame on the track is observed with v_norm < 0.2 on
\* every frame, then whenever its stage is descending or horizontal the
\* stage eventually returns to none.
C17_NeverStuck ==
    (<>[](pattern_call.v_norm < 20))
        => [](Pattern(1).stage # "none" => <>(Pattern(1).stage = "none"))

-----------------------------------------------------------------------------
(* Two detectors fed the same detections at different instants (SpecTwin)  *)

\* process_frame of the second detector on the same detections: it starts
\* dt seconds after that detector's last clock reading and its emergency
\* section reads the clock lag seconds later.
TwinProcessFrame(dets, dt, lag, aws_ok) ==
    LET now == twin.clock + dt
        t   == now + lag
    IN  [clock |-> t,
         detector |-> ProcessFrameResult(twin.detector, dets, now, t, aws_ok)]

\* The same frame is handed to both detectors; only the instants at which
\* each of them processes it differ.
TwinFrame(dets, dt, lag, twin_dt, twin_lag, aws_ok) ==
    /\ clock + dt + lag <= MaxClock
    /\ twin.clock + twin_dt + twin_lag <= MaxClock
    /\ LET now == clock + dt
           t   == now + lag
       IN  \E r \in {ProcessFrameResult(Detector, dets, now, t, aws_ok)} :
               /\ clock' = t
               /\ SetDetector(r)
               /\ cycle_verified' = NextCycleVerified(cycle_verified, r.emergency_data)
               /\ dip' = NextDip(dip, Detector, r, t)
               /\ post' = NextPost(post, r, t)
               /\ persisted' = NextPersisted(persisted, r)
    /\ twin' = TwinProcessFrame(dets, twin_dt, twin_lag, aws_ok)
    /\ UNCHANGED <<scorerVars, patternVars, trackVars,
                   geminiVars, signalVars,
                   cameraVars>>

NextTwin ==
    \E dets \in DetectionLists, dt \in 1..MaxDt, lag \in 0..MaxLag :
        \E twin_dt \in 1..MaxDt, twin_lag \in 0..MaxLag :
            \E aws_ok \in AwsOutcomes(aws_services) :
                TwinFrame(dets, dt, lag, twin_dt, twin_lag, aws_ok)

SpecTwin == Init /\ [][NextTwin]_vars

\* C7: two fresh detectors with the same configuration, fed the same
\* detections frame by frame, emit the same emergency event on every frame,
\* whatever the instants at which each of them processes the frame.
C7_SameEventsWhateverTheClock ==
    twin.detector.emergency_data.type = emergency_data.type

-----------------------------------------------------------------------------
(* The per-track pipeline of process_frame (SpecTrack)                     *)
(*                                                                         *)
(* Pixel coordinates are integers.  Keypoint midpoints are kept doubled    *)
(* (ls + rs instead of (ls + rs) / 2), so that they stay integers.         *)

\* dict.get(pid, default)
Lookup(store, pid, default) ==
    IF pid \in DOMAIN store THEN store[pid] ELSE default

\* store[pid] = value
Store(store, pid, value) ==
    [q \in DOMAIN store \cup {pid} |-> IF q = pid THEN value ELSE store[q]]

\* lst[:n] in the place of lst[-n:]: the newest samples are the ones dropped.
LastNKeepOldest(lst, n) ==
    IF Len(lst) > n THEN SubSeq(lst, 1, n) ELSE lst

\* lst[-n:]
LastN(lst, n) ==
    IF Len(lst) > n THEN SubSeq(lst, Len(lst) - n + 1, Len(lst)) ELSE lst

\* lst[:n]
FirstN(lst, n) == IF Len(lst) > n THEN SubSeq(lst, 1, n) ELSE lst

Abs(x) == IF x >= 0 THEN x ELSE -x

\* n / d rounded up, d > 0
CeilDiv(n, d) == IF n >= 0 THEN (n + d - 1) \div d ELSE -((-n) \div d)

RECURSIVE SqrtSearch(_, _, _)
SqrtSearch(n, lo, hi) ==
    IF lo >= hi THEN lo
    ELSE LET mid == (lo + hi + 1) \div 2
         IN  IF mid * mid <= n THEN SqrtSearch(n, mid, hi)
             ELSE SqrtSearch(n, lo, mid - 1)

\* np.sqrt, rounded down to an integer
ISqrt(n) == SqrtSearch(n, 0, 46340)

RECURSIVE Insert(_, _)
Insert(sorted, x) ==
    IF sorted = <<>> THEN <<x>>
    ELSE IF x <= Head(sorted) THEN <<x>> \o sorted
    ELSE <<Head(sorted)>> \o Insert(Tail(sorted), x)

RECURSIVE SortAscending(_)
SortAscending(lst) ==
    IF lst = <<>> THEN <<>> ELSE Insert(SortAscending(Tail(lst)), Head(lst))

\* np.median of a non-empty list (the mean of the middle two is rounded
\* down to a hundredth)
Median(lst) ==
    LET sorted == SortAscending(lst)
        n      == Len(lst)
    IN  IF n % 2 = 1 THEN sorted[(n + 1) \div 2]
        ELSE (sorted[n \div 2] + sorted[n \div 2 + 1]) \div 2

\* ema with one smoothing state for all tracks: the last value is the one
\* of track 1.
EmaShared(store, pid, value, alpha) ==
    LET last == Lookup(store, 1, value)
    IN  Trunc(alpha * value + (100 - alpha) * last, 100)

\* lines 100-107: ema.  alpha is in hundredths; the smoothed value is
\* rounded toward zero to a hundredth.
Ema(store, pid, value, alpha) ==
    LET last == Lookup(store, pid, value)
    IN  Trunc(alpha * value + (100 - alpha) * last, 100)

\* lines 142-148: the downward-weighted speed of one step, in hundredths of
\* a pixel per frame (the square root is rounded down to 0.05, 0.01 for an
\* upward step).
StepVelocity(dx, dy) ==
    IF dy > 3 THEN 5 * ISqrt(100 * (4 * dx * dx + 25 * dy * dy))
    ELSE IF dy < -2 THEN ISqrt(100 * dx * dx + dy * dy)
    ELSE 5 * ISqrt(100 * (4 * dx * dx + dy * dy))

\* lines 133-150: recent_velocities over the last i steps of positions.
RECURSIVE RecentVelocities(_, _)
RecentVelocities(positions, i) ==
    IF i = 0 THEN <<>>
    ELSE LET n    == Len(positions)
             dx   == positions[n - i + 1][1] - positions[n - i][1]
             dy   == positions[n - i + 1][2] - positions[n - i][2]
             rest == RecentVelocities(positions, i - 1)
         IN  IF Abs(dx) < 2 /\ Abs(dy) < 2 THEN rest
             ELSE Append(rest, StepVelocity(dx, dy))

\* lines 158-167: the acceleration, from the velocity history before the
\* current velocity is appended.  A mean of three is a sum over 3; the
\* difference of means is rounded up, which keeps acceleration > 1.0 exact.
Acceleration(velocities, avg_velocity) ==
    LET n == Len(velocities)
    IN  IF n >= 6
        THEN CeilDiv(SumOver(LastN(velocities, 3), 3)
                     - SumOver(SubSeq(velocities, n - 5, n - 3), 3), 3)
        ELSE IF n >= 3 THEN avg_velocity - velocities[n]
        ELSE 0

\* lines 109-176: calculate_velocity on the track's lists (an absent list
\* is the empty list the function creates).
CalculateVelocity(positions, velocities, accelerations, new_position) ==
    LET pos == LastN(Append(positions, new_position), 15)
    IN  IF Len(pos) < 5
        THEN [positions |-> pos, velocities |-> velocities,
              accelerations |-> accelerations,
              velocity |-> 0, acceleration |-> 0]
        ELSE LET recent == RecentVelocities(pos, Min(5, Len(pos) - 1))
                 avg    == IF recent # <<>> THEN Median(recent) ELSE 0
                 acc    == Acceleration(velocities, avg)
             IN  [positions |-> pos,
                  velocities |-> LastN(Append(velocities, avg), 15),
                  accelerations |->
                      IF Len(velocities) + 1 > 15
                      THEN LastN(Append(accelerations, acc), 15)
                      ELSE Append(accelerations, acc),
                  velocity |-> avg, acceleration |-> acc]

\* lines 191-209: the angles read off the last i steps of the head.
RECURSIVE HeadAngles(_, _)
HeadAngles(head_positions, i) ==
    IF i = 0 THEN <<>>
    ELSE LET n    == Len(head_positions)
             dy   == head_positions[n - i + 1] - head_positions[n - i]
             rest == HeadAngles(head_positions, i - 1)
         IN  IF Abs(dy) < 3 \/ dy <= 15 THEN rest
             ELSE IF dy > 25 THEN Append(rest, 8500)
             ELSE IF dy > 18 THEN Append(rest, 7500)
             ELSE Append(rest, 6000)

\* lines 217-225: angular velocity from the stored angles.
AngularVelocity(angles, current_angle) ==
    LET n == Len(angles)
    IN  IF n >= 6
        THEN Trunc(SumOver(LastN(angles, 3), 3)
                   - SumOver(SubSeq(angles, n - 5, n - 3), 3), 3)
        ELSE IF n >= 3 THEN current_angle - angles[n]
        ELSE 0

\* lines 178-234: calculate_angle; angles is person_angles[pid], or the
\* empty list when the track has none.
CalculateAngle(head_positions, angles) ==
    IF Len(head_positions) < 5
    THEN [angles |-> angles, stored |-> FALSE,
          angle |-> 0, angular_velocity |-> 0]
    ELSE LET found == HeadAngles(head_positions,
                                 Min(5, Len(head_positions) - 1))
         IN  IF found = <<>>
             THEN [angles |-> angles, stored |-> FALSE,
                   angle |-> 0, angular_velocity |-> 0]
             ELSE LET current_angle == Median(found)
                  IN  [angles |-> LastN(Append(angles, current_angle), 15),
                       stored |-> TRUE,
                       angle |-> current_angle,
                       angular_velocity |->
                           AngularVelocity(angles, current_angle)]

\* detect_head_downward_motion with its length test off by one.
DetectHeadDownwardMotionTwo(head_positions) ==
    LET n          == Len(head_positions)
        k          == Min(3, n - 1)
        total_drop == head_positions[n] - head_positions[1]
    IN  IF n < 2 THEN 0
        ELSE IF head_positions[n] - head_positions[n - k] > 10 * k
                /\ total_drop > 25
        THEN Min(300, Trunc(100 * total_drop, 15))
        ELSE 0

\* lines 236-271: detect_head_downward_motion, after the head position of
\* the frame has been stored.  The mean of the last k steps exceeds 10 when
\* their sum, head[-1] - head[-1-k], exceeds 10 k.
DetectHeadDownwardMotion(head_positions) ==
    LET n          == Len(head_positions)
        k          == Min(3, n - 1)
        total_drop == head_positions[n] - head_positions[1]
        initial3   == SumOver(FirstN(head_positions, 3), 3)
        recent3    == SumOver(LastN(head_positions, 3), 3)
    IN  IF n < 3 THEN 0
        ELSE IF head_positions[n] - head_positions[n - k] > 10 * k
                /\ total_drop > 25
        THEN Min(300, Trunc(100 * total_drop, 15))
        ELSE IF n >= 5 /\ recent3 > initial3 + 90
        THEN Min(200, Trunc(100 * (recent3 - initial3), 60))
        ELSE 0

\* lines 273-301: detect_body_shape_change.  Aspect ratios are in
\* hundredths.
DetectBodyShapeChange(aspect_ratios, width, height) ==
    LET aspect_ratio == IF height > 0 THEN Trunc(100 * width, height) ELSE 100
        ratios       == LastN(Append(aspect_ratios, aspect_ratio), 10)
        recent3      == SumOver(LastN(ratios, 3), 3)
        earlier3     == SumOver(FirstN(ratios, 3), 3)
    IN  [aspect_ratios |-> ratios,
         score |-> IF Len(ratios) < 5 THEN 0
                   ELSE IF 10 * recent3 > 13 * earlier3
                   THEN Min(200, Trunc(2 * (recent3 - earlier3), 3))
                   ELSE 0]

\* lines 303-337: detect_impact.  velocities is person_velocities[pid]
\* after calculate_velocity, patterns is person_fall_patterns.  The record
\* analyze_temporal_pattern creates has no 'still_frames' entry: the
\* increment of line 331 then raises KeyError.
DetectImpact(motion_states, velocities, patterns, pid, current_velocity) ==
    LET state0 == Lookup(motion_states, pid, "moving")
        recent == LastN(velocities, 5)
        max_velocity == Max(recent[1], Max(recent[2], recent[3]))
        dropped == /\ Len(velocities) >= 5
                   /\ max_velocity > FALL_THRESHOLD_VELOCITY * 2
                   /\ 10 * recent[5] < 3 * max_velocity
        rec0 == Lookup(patterns, pid, [still_frames |-> 0])
        rec1 == [rec0 EXCEPT !.still_frames = @ + 1]
    IN  IF dropped /\ state0 # "impact"
        THEN [motion_states |-> Store(motion_states, pid, "impact"),
              patterns |-> patterns, score |-> 300, error |-> "none"]
        ELSE IF state0 = "impact"
                /\ 2 * current_velocity < FALL_THRESHOLD_VELOCITY
        THEN IF "still_frames" \notin DOMAIN rec0
             THEN [motion_states |-> Store(motion_states, pid, state0),
                   patterns |-> Store(patterns, pid, rec0),
                   score |-> 0, error |-> "KeyError"]
             ELSE [motion_states |-> Store(motion_states, pid, state0),
                   patterns |-> Store(patterns, pid, rec1),
                   score |-> IF rec1.still_frames > 3 THEN 200 ELSE 0,
                   error |-> "none"]
        ELSE [motion_states |-> Store(motion_states, pid, state0),
              patterns |-> patterns, score |-> 0, error |-> "none"]

\* line 589: np.degrees(np.arctan2(a, b)) for a, b >= 0, in hundredths of
\* a degree.  Exact for a torso along an axis or the diagonal; in between
\* arctan r is r (45 + 15.64 (1 - r)) degrees to within a quarter degree.
ArctanDegrees(a, b) ==
    IF a = 0 THEN 0
    ELSE IF b = 0 THEN 9000
    ELSE IF a <= b THEN (a * (4500 * b + 1564 * (b - a))) \div (b * b)
    ELSE 9000 - (b * (4500 * a + 1564 * (a - b))) \div (a * a)

\* The height of the camera frames (frame.shape[0], line 544).
H == 480

\* lines 572-607: the pose signals of one detection.  kp is the sequence
\* <<ls, rs, lh, rh>> of keypoints 5, 6, 11, 12, or <<>> when the result
\* has no (or too few) keypoints; hist is person_center_positions[pid] or
\* <<>>; box is <<x1, y1, x2, y2>>.
KeypointSignals(kp, hist, box) ==
    IF kp = <<>> \/ \E i \in 1..4 : kp[i][1] <= 0 /\ kp[i][2] <= 0
    THEN [angle_to_vertical |-> 0, v_norm |-> 0, near_floor |-> FALSE,
          tracked |-> FALSE, hist |-> hist]
    ELSE LET shoulder_mid == <<kp[1][1] + kp[2][1], kp[1][2] + kp[2][2]>>
             hip_mid      == <<kp[3][1] + kp[4][1], kp[3][2] + kp[4][2]>>
             vx           == hip_mid[1] - shoulder_mid[1]
             vy           == hip_mid[2] - shoulder_mid[2]
             torso_len    == Max(100, 5 * ISqrt(100 * (vx * vx + vy * vy)))
             hist1        == Append(hist, hip_mid)
             n            == Len(hist1)
         IN  [angle_to_vertical |-> ArctanDegrees(Abs(vx), Abs(vy)),
              v_norm |-> IF n >= 2
                         THEN Trunc(5000 * (hist1[n][2] - hist1[n - 1][2]),
                                    torso_len)
                         ELSE 0,
              near_floor |-> \/ 100 * Max(box[2], box[4]) > 85 * H
                             \/ 10 * hip_mid[2] > 16 * H,
              tracked |-> TRUE,
              hist |-> LastN(hist1, 20)]

\* The per-track maps of the detector as one record.
TrackMaps ==
    [person_positions |-> person_positions,
     person_velocities |-> person_velocities,
     person_accelerations |-> person_accelerations,
     person_sizes |-> person_sizes,
     person_head_positions |-> person_head_positions,
     person_angles |-> person_angles,
     person_aspect_ratios |-> person_aspect_ratios,
     person_center_positions |-> person_center_positions,
     ema_vnorm |-> ema_vnorm,
     ema_angle |-> ema_angle,
     person_motion_states |-> person_motion_states,
     person_fall_patterns |-> person_fall_patterns]

\* The maps take the values of record m.
SetTrackMaps(m) ==
    /\ person_positions' = m.person_positions
    /\ person_velocities' = m.person_velocities
    /\ person_accelerations' = m.person_accelerations
    /\ person_sizes' = m.person_sizes
    /\ person_head_positions' = m.person_head_positions
    /\ person_angles' = m.person_angles
    /\ person_aspect_ratios' = m.person_aspect_ratios
    /\ person_center_positions' = m.person_center_positions
    /\ ema_vnorm' = m.ema_vnorm
    /\ ema_angle' = m.ema_angle
    /\ person_motion_states' = m.person_motion_states
    /\ person_fall_patterns' = m.person_fall_patterns

\* lines 653-666: the detection record of a track.
DetectionRecord(pid, box, center, velocity, acceleration, angle, angular_velocity, head_score, shape_score, impact_score, pattern_score, severity) ==
    [id |-> pid, bbox |-> box, center |-> center,
     velocity |-> velocity, acceleration |-> acceleration,
     angle |-> angle, angular_velocity |-> angular_velocity,
     head_score |-> head_score, shape_score |-> shape_score,
     impact_score |-> impact_score, pattern_score |-> pattern_score,
     severity |-> severity]

\* lines 644-666: the temporal pattern, the severity and the detection
\* record, once the signals of the track are known.  m holds the maps as
\* detect_impact left them, sig the signals.
ScorePerson(m, pid, sig, fc, fdf, sfn) ==
    LET st0 == Lookup(m.person_fall_patterns, pid, NewPattern)
    IN  IF "stage" \notin DOMAIN st0
        THEN [m |-> m, error |-> "KeyError", processed |-> TRUE,
              static |-> FALSE, detection |-> << >>]
        ELSE LET pat == AnalyzeTemporalPatternFn(st0, sig.v_norm_smooth,
                                                 sig.angle_smooth, fc, fdf, sfn)
                 severity == AssessSeverity(sig.velocity, sig.acceleration,
                                 sig.angle, sig.angular_velocity,
                                 sig.head_score, sig.shape_score,
                                 sig.impact_score, pat.score)
             IN  [m |-> [m EXCEPT !.person_fall_patterns =
                                      Store(@, pid, pat.st)],
                  error |-> "none", processed |-> TRUE,
                  static |-> /\ Abs(sig.v_norm) <= 20
                             /\ Abs(sig.v_norm_smooth) <= 20
                             /\ sig.angle < FALL_THRESHOLD_ANGLE
                             /\ sig.angle_smooth < FALL_THRESHOLD_ANGLE,
                  detection |->
                      <<DetectionRecord(pid, sig.box, sig.center,
                            sig.velocity, sig.acceleration, sig.angle,
                            sig.angular_velocity, sig.head_score,
                            sig.shape_score, sig.impact_score, pat.score,
                            severity)>>]

\* lines 554-666: process_frame on one person box.  m holds the per-track
\* maps, obs the box, its track id and its keypoints; fc, fdf and sfn are
\* frame_count, fall_duration_frames and still_frames_needed of the frame.
\* error is the exception that ends the frame, if any.
ProcessPerson(m, obs, fc, fdf, sfn) ==
    LET pid    == obs.pid
        box    == obs.box
        width  == box[3] - box[1]
        height == box[4] - box[2]
    IN  IF ~(width > 50 /\ height > 100)
        THEN [m |-> m, error |-> "none", processed |-> FALSE,
              static |-> FALSE, detection |-> << >>]
        ELSE
        LET center == <<Trunc(box[1] + box[3], 2), Trunc(box[2] + box[4], 2)>>
            pose   == KeypointSignals(obs.kp,
                          Lookup(m.person_center_positions, pid, << >>), box)
            heads  == LastN(Append(Lookup(m.person_head_positions, pid, << >>),
                                   box[2]), 15)
            v_norm_smooth == Ema(m.ema_vnorm, pid, pose.v_norm, 25)
            angle_smooth  == Ema(m.ema_angle, pid, pose.angle_to_vertical, 20)
            cv     == CalculateVelocity(Lookup(m.person_positions, pid, << >>),
                                        Lookup(m.person_velocities, pid, << >>),
                                        Lookup(m.person_accelerations, pid, << >>),
                                        center)
            ca     == CalculateAngle(heads, Lookup(m.person_angles, pid, << >>))
            angle    == IF pose.angle_to_vertical > 0
                        THEN pose.angle_to_vertical ELSE ca.angle
            velocity == IF pose.v_norm > 0
                        THEN Max(cv.velocity, v_norm_smooth * 10)
                        ELSE cv.velocity
            shape  == DetectBodyShapeChange(
                          Lookup(m.person_aspect_ratios, pid, << >>),
                          width, height)
            impact == DetectImpact(m.person_motion_states, cv.velocities,
                                   m.person_fall_patterns, pid, velocity)
            m1 == [person_positions |-> Store(m.person_positions, pid, cv.positions),
                   person_velocities |-> Store(m.person_velocities, pid, cv.velocities),
                   person_accelerations |->
                       Store(m.person_accelerations, pid, cv.accelerations),
                   person_sizes |-> Store(m.person_sizes, pid, <<width, height>>),
                   person_head_positions |-> Store(m.person_head_positions, pid, heads),
                   person_angles |-> IF ca.stored
                                     THEN Store(m.person_angles, pid, ca.angles)
                                     ELSE m.person_angles,
                   person_aspect_ratios |->
                       Store(m.person_aspect_ratios, pid, shape.aspect_ratios),
                   person_center_positions |->
                       IF pose.tracked
                       THEN Store(m.person_center_positions, pid, pose.hist)
                       ELSE m.person_center_positions,
                   ema_vnorm |-> Store(m.ema_vnorm, pid, v_norm_smooth),
                   ema_angle |-> Store(m.ema_angle, pid, angle_smooth),
                   person_motion_states |-> impact.motion_states,
                   person_fall_patterns |-> impact.patterns]
            sig == [box |-> box, center |-> center,
                    v_norm |-> pose.v_norm, v_norm_smooth |-> v_norm_smooth,
                    angle_smooth |-> angle_smooth,
                    velocity |-> velocity, acceleration |-> cv.acceleration,
                    angle |-> angle, angular_velocity |-> ca.angular_velocity,
                    head_score |-> DetectHeadDownwardMotion(heads),
                    shape_score |-> shape.score,
                    impact_score |-> IF pose.near_floor /\ angle_smooth > 7000
                                     THEN impact.score + 100 ELSE impact.score]
        IN  IF impact.error # "none"
            THEN [m |-> m1, error |-> impact.error, processed |-> TRUE,
                  static |-> FALSE, detection |-> << >>]
            ELSE ScorePerson(m1, pid, sig, fc, fdf, sfn)

\* The frames of one tracked person, as the detector results of lines
\* 546-582 deliver them: standing with keypoints, standing 20 pixels to the
\* side without keypoints, and lying near the floor with keypoints.
Observations ==
    { [pid |-> 1, box |-> <<100, 100, 180, 260>>,
       kp |-> << <<130, 120>>, <<150, 120>>, <<130, 170>>, <<150, 170>> >>],
      [pid |-> 1, box |-> <<120, 100, 200, 260>>, kp |-> << >>],
      [pid |-> 1, box |-> <<20, 310, 260, 430>>,
       kp |-> << <<115, 372>>, <<115, 368>>, <<165, 372>>, <<165, 368>> >>] }

\* The consecutive observations of a track, up to this one, on which it was
\* motionless and upright: raw and smoothed v_norm within [-0.2, 0.2], the
\* reported and the smoothed angle below fall_threshold_angle.
NextStaticRun(run, pid, static) ==
    Store(run, pid, IF static THEN Lookup(run, pid, 0) + 1 ELSE 0)

\* One iteration of camera_loop on a frame that shows one person.  An
\* exception of process_frame ends the loop's thread with the updates made
\* up to the raise.
TrackStep(obs, dt, aws_ok) ==
    /\ frame_error = "none"
    /\ \E s1 \in {UpdateFps(Detector, clock + dt)} :
       \E res \in {ProcessPerson(TrackMaps, obs, s1.frame_count,
                                 s1.fall_duration_frames,
                                 s1.still_frames_needed)} :
           /\ clock' = clock + dt
           /\ SetTrackMaps(res.m)
           /\ frame_error' = res.error
           /\ IF res.error # "none"
              THEN /\ SetDetector(s1)
                   /\ UNCHANGED <<detections, static_run, observerVars>>
              ELSE \E r \in {ProcessFrameResult(Detector, res.detection,
                                                clock + dt, clock + dt, aws_ok)} :
                       /\ SetDetector(r)
                       /\ detections' = res.detection
                       /\ static_run' =
                              IF res.processed
                              THEN NextStaticRun(static_run, obs.pid, res.static)
                              ELSE static_run
                       /\ cycle_verified' =
                              NextCycleVerified(cycle_verified, r.emergency_data)
                       /\ dip' = NextDip(dip, Detector, r, clock + dt)
                       /\ post' = NextPost(post, r, clock + dt)
                       /\ persisted' = NextPersisted(persisted, r)
    /\ UNCHANGED <<scorerVars, variant, called, pattern_call, emitted,
                   twinVars,
                   geminiVars, signalVars,
                   cameraVars>>

TrackFrame(obs, dt, aws_ok) ==
    /\ frame_count < MaxTrackFrames
    /\ TrackStep(obs, dt, aws_ok)

NextTrack ==
    \E obs \in Observations, dt \in 1..MaxDt :
        \E aws_ok \in AwsOutcomes(aws_services) :
            TrackFrame(obs, dt, aws_ok)

\* The detector of SpecTrack runs without AWS services (init_aws_services
\* returned None, lines 96-98); Spec covers the storage calls.
InitTrackSpec == Init /\ ~aws_services

SpecTrack == InitTrackSpec /\ [][NextTrack]_vars

\* C8: once a track has been motionless and upright for 10 consecutive
\* frames or more, the severity reported for it is 1.
C8_StaticSubjectSeverityOne ==
    \A i \in 1..Len(detections) :
        Lookup(static_run, detections[i].id, 0) >= 10
            => detections[i].severity = 1

\* C19: a frame whose person detection comes without usable keypoints (no
\* hip midpoint is recorded for it) completes without an error and yields a
\* detection record with a severity from 1 to 10.
C19_BboxOnlyFrameCompletes ==
    [][ (frame_count' = frame_count + 1
            /\ person_center_positions' = person_center_positions)
          => /\ frame_error' = "none"
             /\ Len(detections') = 1
             /\ detections'[1].severity \in 1..10
      ]_vars

\* C30: the severity of a frame's emergency event is the maximum of the
\* severities of the tracks detected in that frame, 1 if there is none.
C30_FrameMaxOfThisFrame ==
    emergency_data.type \in {"emergency_alert", "emergency_verifying",
                             "emergency_verified", "monitoring_recovery"}
        => emergency_data.severity = FrameMaxSeverity(1, detections)

\* C36: detect_impact and analyze_temporal_pattern share the records of
\* person_fall_patterns without conflict: no frame ends in a KeyError, and
\* every record has the fields 'stage', 't0', 'k' and 'm'.
C36_PatternRecordShared ==
    /\ frame_error # "KeyError"
    /\ \A p \in DOMAIN person_fall_patterns :
           {"stage", "t0", "k", "m"} \subseteq DOMAIN person_fall_patterns[p]

\* C31: the stored peak decays when falls clear: a frame in which no track
\* has a severity above 1 while the stored peak is above 1 lowers the peak
\* by 1, never below 1.
C31_PeakDecays ==
    [][ (/\ frame_count' = frame_count + 1
         /\ frame_error' = "none"
         /\ \A i \in 1..Len(detections') : detections'[i].severity <= 1
         /\ max_severity > 1)
          => max_severity' = Max(1, max_severity - 1)
      ]_vars

-----------------------------------------------------------------------------
(* Two tracked persons (SpecTracks)                                        *)

TrackIds == {1, 2}

\* The frames of a second tracked person (box.id 2, line 564): standing and
\* lying near the floor, both with keypoints.
SecondTrackObservations ==
    { [pid |-> 2, box |-> <<300, 100, 380, 260>>,
       kp |-> << <<330, 120>>, <<350, 120>>, <<330, 170>>, <<350, 170>> >>],
      [pid |-> 2, box |-> <<300, 310, 540, 430>>,
       kp |-> << <<395, 372>>, <<395, 368>>, <<445, 372>>, <<445, 368>> >>] }

\* One iteration of camera_loop on a frame that shows one of the two.
TracksFrame(obs, aws_ok) ==
    /\ frame_count < MaxTracksFrames
    /\ TrackStep(obs, MaxDt, aws_ok)

NextTracks ==
    \E obs \in Observations \cup SecondTrackObservations :
        \E aws_ok \in AwsOutcomes(aws_services) :
            TracksFrame(obs, aws_ok)

SpecTracks == InitTrackSpec /\ [][NextTracks]_vars

\* Track q has the same entry, or none, in every per-track map before and
\* after the step.
TrackEntriesKept(q) ==
    \A n \in DOMAIN TrackMaps :
        /\ q \in DOMAIN TrackMaps[n] <=> q \in DOMAIN TrackMaps'[n]
        /\ q \in DOMAIN TrackMaps[n] => TrackMaps'[n][q] = TrackMaps[n][q]

\* C32: tracks are independent: a frame changes the per-track entries of
\* one track at most; a frame that completes on an observation of track p
\* changes no entry of another track, and the first smoothed values of a
\* new track are its own first raw samples (the torso angle of the frame,
\* and 0 for the normalised velocity, which needs two hip midpoints).
C32_TracksIndependent ==
    [][ /\ \A p \in TrackIds, q \in TrackIds :
              p # q => TrackEntriesKept(p) \/ TrackEntriesKept(q)
        /\ (frame_count' = frame_count + 1 /\ frame_error' = "none")
              => /\ Len(detections') = 1
                 /\ \A q \in TrackIds \ {detections'[1].id} :
                        TrackEntriesKept(q)
                 /\ detections'[1].id \notin DOMAIN ema_angle
                        => /\ ema_angle'[detections'[1].id] = detections'[1].angle
                           /\ ema_vnorm'[detections'[1].id] = 0
      ]_vars

\* Track 2 is first seen lying while track 1 has a smoothed angle of its
\* own, and both have entries that differ.
C32_Witness ==
    /\ DOMAIN ema_angle = TrackIds
    /\ Len(person_head_positions[2]) = 1
    /\ Len(person_head_positions[1]) >= 2
    /\ ema_angle[2] > 7000
    /\ ema_angle[1] < ema_angle[2]
    /\ detections # << >>
    /\ detections[1].id = 2

-----------------------------------------------------------------------------
(* The history lists of a track over many frames (SpecHistory)             *)

HistoryTracks == {1}

\* Frame n of a person who sinks 20 pixels per frame for 3 frames and then
\* rises again, as lines 546-582 deliver it, with or without keypoints.
HistoryObservation(n, with_kp) ==
    LET off == 20 * ((n - 1) % 4)
    IN  [pid |-> 1, box |-> <<100, 100 + off, 180, 260 + off>>,
         kp |-> IF with_kp
                THEN << <<130, 120 + off>>, <<150, 120 + off>>,
                        <<130, 170 + off>>, <<150, 170 + off>> >>
                ELSE << >>]

\* The frames of the track so far for which no hip midpoint was recorded.
Dropouts == frame_count - Len(Lookup(person_center_positions, 1, << >>))

\* One iteration of camera_loop on the next frame of the person, MaxDt
\* seconds after the last one; the pose model misses the keypoints of at
\* most MaxDropouts frames.
HistoryFrame(with_kp, aws_ok) ==
    /\ frame_count < MaxHistoryFrames
    /\ with_kp \/ Dropouts < MaxDropouts
    /\ TrackStep(HistoryObservation(frame_count + 1, with_kp), MaxDt, aws_ok)

NextHistory ==
    \E with_kp \in BOOLEAN, aws_ok \in AwsOutcomes(aws_services) :
        HistoryFrame(with_kp, aws_ok)

SpecHistory == InitTrackSpec /\ [][NextHistory]_vars

\* new holds at most limit samples and is old with at most one sample added at
\* the end, the oldest samples leaving first.
Shifted(old, new, limit) ==
    /\ Len(new) <= limit
    /\ \/ new = old
       \/ /\ Len(new) = Min(Len(old) + 1, limit)
          /\ \A i \in 1..(Len(new) - 1) :
                 new[i] = old[Len(old) - (Len(new) - 1) + i]

\* new is old with exactly one sample added.
ShiftedByOne(old, new, limit) ==
    /\ Shifted(old, new, limit)
    /\ Len(old) < limit => Len(new) = Len(old) + 1
    /\ Len(old) = limit => (new # old \/ \A i \in 1..limit : old[i] = old[1])

\* C18: after every process_frame step every history list of every track is
\* within its capacity (15 positions, velocities, accelerations, angles and
\* head positions, 10 aspect ratios, 20 hip midpoints) and is the list before
\* the step with the new sample added at the end and the oldest one evicted.
C18_HistoriesBounded ==
    [][ \A p \in HistoryTracks :
          /\ ShiftedByOne(Lookup(person_positions, p, << >>), Lookup(person_positions, p, << >>)', 15)
          /\ ShiftedByOne(Lookup(person_head_positions, p, << >>), Lookup(person_head_positions, p, << >>)', 15)
          /\ ShiftedByOne(Lookup(person_aspect_ratios, p, << >>), Lookup(person_aspect_ratios, p, << >>)', 10)
          /\ Shifted(Lookup(person_velocities, p, << >>), Lookup(person_velocities, p, << >>)', 15)
          /\ Shifted(Lookup(person_accelerations, p, << >>), Lookup(person_accelerations, p, << >>)', 15)
          /\ Shifted(Lookup(person_angles, p, << >>), Lookup(person_angles, p, << >>)', 15)
          /\ Shifted(Lookup(person_center_positions, p, << >>), Lookup(person_center_positions, p, << >>)', 20)
      ]_vars

\* After 22 frames with keypoints every list is full, and the hip midpoints
\* are those of frames 3 to 22.
C18_Witness ==
    /\ frame_count = 22
    /\ frame_error = "none"
    /\ Len(Lookup(person_positions, 1, << >>)) = 15
    /\ Len(Lookup(person_velocities, 1, << >>)) = 15
    /\ Len(Lookup(person_accelerations, 1, << >>)) = 15
    /\ Len(Lookup(person_angles, 1, << >>)) = 15
    /\ Len(Lookup(person_head_positions, 1, << >>)) = 15
    /\ Len(Lookup(person_aspect_ratios, 1, << >>)) = 10
    /\ Len(Lookup(person_center_positions, 1, << >>)) = 20
    /\ Lookup(person_center_positions, 1, << >>)[1] = <<280, 420>>
    /\ Lookup(person_center_positions, 1, << >>)[20] = <<280, 380>>
    /\ Lookup(person_head_positions, 1, << >>)[1] = 160

-----------------------------------------------------------------------------
(* process_frame of src/AWS-INRIX-Hack-Pack-2025/backend/simple_backend.py *)
(* (SpecPose)                                                              *)

\* The 17 COCO keypoints of a standing person: shoulders (5, 6) and hips
\* (11, 12) as in Observations, the others not detected.
FullKeypoints ==
    [j \in 1..17 |->
        IF j = 6 THEN <<130, 120>> ELSE IF j = 7 THEN <<150, 120>>
        ELSE IF j = 12 THEN <<130, 170>> ELSE IF j = 13 THEN <<150, 170>>
        ELSE <<0, 0>>]

\* What the pose model returns for a frame: the boxes and keypoints.xy, one
\* row of 17 points per box.  No person, a person below the minimum body
\* size of line 476, a person of sufficient size with every keypoint.
PoseResults ==
    { [boxes |-> << >>, xy |-> << >>],
      [boxes |-> << [id |-> 1, xyxy |-> <<100, 100, 140, 180>>] >>,
       xy |-> << FullKeypoints >>],
      [boxes |-> << [id |-> 1, xyxy |-> <<100, 100, 180, 260>>] >>,
       xy |-> << FullKeypoints >>] }

\* lines 470-477: whether box i of the result passes the size filter.
PoseSized(res, i) ==
    LET b == res.boxes[i].xyxy
    IN  ~(b[3] - b[1] < 50 \/ b[4] - b[2] < 100)

\* lines 480-482 and 529-531: the first exception the body of the loop
\* raises for box i (counted from 1).  kps.xy[0][i] is point i of the first
\* row, two numbers, and kp[5], kp[6], kp[11], kp[12] index past its end;
\* a kp of 13 entries or more would reach line 529, which unpacks two values
\* from the single float calculate_velocity returns (lines 211-212, 241).
PosePersonError(res, i) ==
    LET kp == res.xy[1][i]
    IN  IF Len(kp) <= 12 THEN "IndexError" ELSE "TypeError"

\* The first box of the result that passes the size filter, 0 if none does.
FirstSized(res) ==
    LET sized == {i \in 1..Len(res.boxes) : PoseSized(res, i)}
    IN  IF sized = {} THEN 0 ELSE CHOOSE i \in sized : \A j \in sized : i <= j

\* lines 640-649: the average of a field over the detections, 0 if none.
AvgVelocity(dets) ==
    IF dets = << >> THEN 0
    ELSE SumOver([i \in 1..Len(dets) |-> dets[i].velocity], Len(dets)) \div Len(dets)

AvgAngle(dets) ==
    IF dets = << >> THEN 0
    ELSE SumOver([i \in 1..Len(dets) |-> dets[i].angle], Len(dets)) \div Len(dets)

\* lines 613-686: the emergency section of the pose variant for a frame whose
\* maximum severity is frameMax; t is the clock reading it makes.  dispatch
\* says whether lines 655-666 write last_emergency_data and start a thread.
PoseEmergencyCheck(s, dets, frameMax, t, aws_ok) ==
    IF frameMax >= emergency_severity_threshold
    THEN IF ~s.emergency_active
         THEN [emergency_active |-> TRUE, emergency_start_time |-> t,
               emergency_data |-> [type |-> "emergency_alert",
                                   severity |-> frameMax,
                                   verification_time |-> VERIFICATION_TIME_SECONDS],
               store_calls |-> <<>>, verified |-> FALSE, dispatch |-> FALSE]
         ELSE IF t - s.emergency_start_time >= VERIFICATION_TIME_SECONDS
         THEN LET url == StoreEmergencyVideo(s.aws_services, aws_ok.s3)
              IN  [emergency_active |-> FALSE, emergency_start_time |-> NoneTime,
                   emergency_data |-> [type |-> "emergency_verified",
                                       severity |-> frameMax],
                   store_calls |->
                       IF url = "None"
                       THEN << [op |-> "store_emergency_video", video_url |-> url] >>
                       ELSE << [op |-> "store_emergency_video", video_url |-> url],
                               [op |-> "save_emergency_event",
                                severity |-> frameMax,
                                velocity |-> AvgVelocity(dets),
                                angle |-> AvgAngle(dets), video_url |-> url,
                                result |-> SaveEmergencyEvent(s.aws_services, aws_ok.dynamodb)] >>,
                   verified |-> TRUE,
                   dispatch |-> url # "None" /\ gemini_analyzer]
         ELSE [emergency_active |-> TRUE,
               emergency_start_time |-> s.emergency_start_time,
               emergency_data |->
                   [type |-> "emergency_verifying", severity |-> frameMax,
                    remaining_time |->
                        VERIFICATION_TIME_SECONDS - (t - s.emergency_start_time)],
               store_calls |-> <<>>, verified |-> FALSE, dispatch |-> FALSE]
    ELSE IF s.emergency_active
    THEN [emergency_active |-> FALSE, emergency_start_time |-> NoneTime,
          emergency_data |-> [type |-> "emergency_cleared"],
          store_calls |-> <<>>, verified |-> FALSE, dispatch |-> FALSE]
    ELSE [emergency_active |-> FALSE,
          emergency_start_time |-> s.emergency_start_time,
          emergency_data |-> [type |-> "none"], store_calls |-> <<>>,
          verified |-> FALSE, dispatch |-> FALSE]

\* lines 656-661: the record a dispatching verification stores in
\* last_emergency_data.
EmergencyDataOf(frameMax, dets, t) ==
    [severity |-> frameMax, velocity |-> AvgVelocity(dets),
     angle |-> AvgAngle(dets), timestamp |-> t]

\* lines 662-666: the thread started with args (frame, max_severity,
\* avg_velocity, avg_angle); dispatched remembers the verification's record.
NewThread(frameMax, dets, t) ==
    [severity |-> frameMax, velocity |-> AvgVelocity(dets),
     angle |-> AvgAngle(dets), dispatched |-> EmergencyDataOf(frameMax, dets, t),
     pc |-> "encode"]

\* lines 426-740: process_frame on the result res.  A box that passes the
\* size filter raises before any per-track map is written (the first write
\* is line 499); a frame without such a box has no detections and keeps the
\* stored maximum severity (line 453).
PoseProcessFrameResult(s, res, now, t, aws_ok) ==
    LET s1 == UpdateFps(s, now)
        i  == FirstSized(res)
    IN  IF i # 0
        THEN [detector |-> s1, error |-> PosePersonError(res, i),
              detections |-> << >>, verified |-> FALSE, dispatch |-> FALSE]
        ELSE LET e == PoseEmergencyCheck(s1, << >>, s.max_severity, t, aws_ok)
             IN  [detector |->
                      [s1 EXCEPT !.current_people_count = 0,
                                 !.total_detections = s.total_detections + 1,
                                 !.emergency_active = e.emergency_active,
                                 !.emergency_start_time = e.emergency_start_time,
                                 !.emergency_data = e.emergency_data,
                                 !.store_calls = e.store_calls],
                  error |-> "none", detections |-> << >>,
                  verified |-> e.verified, dispatch |-> e.dispatch]

\* One iteration of camera_loop (lines 773-783) of the pose variant.  An
\* exception of process_frame ends the loop's thread.  called holds the
\* tracks of the frame that passed the size filter.
PoseFrame(res, dt, aws_ok) ==
    /\ variant = "pose"
    /\ frame_error = "none"
    /\ frame_count < MaxPoseFrames
    /\ \E r \in {PoseProcessFrameResult(Detector, res, clock + dt, clock + dt, aws_ok)} :
           /\ clock' = clock + dt
           /\ SetDetector(r.detector)
           /\ frame_error' = r.error
           /\ detections' = r.detections
           /\ total_emergencies' = total_emergencies + (IF r.verified THEN 1 ELSE 0)
           /\ last_emergency_data' =
                  IF r.dispatch
                  THEN EmergencyDataOf(r.detector.max_severity, r.detections, clock + dt)
                  ELSE last_emergency_data
           /\ analysis_threads' =
                  IF r.dispatch
                  THEN Append(analysis_threads,
                              NewThread(r.detector.max_severity, r.detections, clock + dt))
                  ELSE analysis_threads
    /\ called' = {res.boxes[i].id : i \in {j \in 1..Len(res.boxes) : PoseSized(res, j)}}
    /\ UNCHANGED <<observerVars, scorerVars, variant, person_fall_patterns,
                   pattern_call, emitted, twinVars, person_positions,
                   person_velocities, person_accelerations, person_sizes,
                   person_head_positions, person_angles, person_aspect_ratios,
                   person_center_positions, ema_vnorm, ema_angle,
                   person_motion_states, static_run, signalVars, cameraVars,
                   emergency_severity_threshold, gemini_analyzer,
                   last_ai_analysis, completed>>

NextPose ==
    \E res \in PoseResults, dt \in 1..MaxDt :
        \E aws_ok \in AwsOutcomes(aws_services) :
            PoseFrame(res, dt, aws_ok)

InitPose ==
    /\ InitEmergency
    /\ InitObservers
    /\ InitScorerIdle
    /\ InitPattern({"pose"})
    /\ InitTwin
    /\ InitTrack
    /\ InitGemini
    /\ InitSignal
    /\ InitCamera

SpecPose == InitPose /\ [][NextPose]_vars

\* C20: a frame of the pose variant with a person of sufficient size and a
\* complete keypoint set completes without an exception and returns a
\* detection record for that person.
C20_PoseFrameCompletes ==
    called # {} =>
        /\ frame_error = "none"
        /\ \A p \in called : \E i \in 1..Len(detections) : detections[i].id = p

-----------------------------------------------------------------------------
(* analyze_with_gemini of the pose variant beside the frame loop           *)
(* (SpecGemini)                                                            *)

\* The sequence without its entry i.
RemoveAt(seq, i) == SubSeq(seq, 1, i - 1) \o SubSeq(seq, i + 1, Len(seq))

\* What cv2.imencode and base64 do at lines 822-823: return or raise.
EncodeOutcomes == {"ok", "raises"}

\* What gemini_analyzer.analyze_fall_image does at lines 826-828
\* (analyze.py, lines 23-50 and 102-166): a dict with success (lines
\* 155-160), a dict with error (lines 104-108, 148-153, 162-166), or an
\* exception of its own (building the prompt, lines 47-48).
AnalyzerOutcomes == {"success", "failure", "raises"}

\* A thread that writes a record only when the analyzer returned a dict.
AnalysisRecordUncaught(outcome, led) ==
    IF outcome = "success"
    THEN [kind |-> "analysis", emergency_data |-> led]
    ELSE IF outcome = "failure"
    THEN [kind |-> "error"]
    ELSE last_ai_analysis

\* lines 830-850: the record the thread writes for the analyzer's outcome;
\* the success record reads self.last_emergency_data at that moment.  The
\* record's own timestamp, the text and the provider are left out.
AnalysisRecord(outcome, led) ==
    IF outcome = "success"
    THEN [kind |-> "analysis", emergency_data |-> led]
    ELSE [kind |-> "error"]

\* lines 818-823 of thread i: the frame is encoded.  An exception is caught
\* at line 845 and the error record is written (lines 847-850).
AnalysisEncode(i, outcome) ==
    /\ i \in 1..Len(analysis_threads)
    /\ analysis_threads[i].pc = "encode"
    /\ IF outcome = "ok"
       THEN /\ analysis_threads' = [analysis_threads EXCEPT ![i].pc = "request"]
            /\ UNCHANGED <<last_ai_analysis, completed>>
       ELSE /\ last_ai_analysis' = AnalysisRecord("raises", last_emergency_data)
            /\ completed' = [analysis_threads[i] EXCEPT !.pc = "raised"]
            /\ analysis_threads' = RemoveAt(analysis_threads, i)
    /\ UNCHANGED <<emergencyVars, observerVars, scorerVars, patternVars,
                   twinVars, trackVars, emergency_severity_threshold,
                   gemini_analyzer, total_emergencies, last_emergency_data,
                   signalVars,
                   cameraVars>>

\* The end of thread i, had the thread closed the emergency it analysed:
\* it counts the emergency and clears the live emergency state.
AnalysisFinishClosesEmergency(i, outcome) ==
    /\ i \in 1..Len(analysis_threads)
    /\ analysis_threads[i].pc = "request"
    /\ last_ai_analysis' = AnalysisRecord(outcome, last_emergency_data)
    /\ completed' = [analysis_threads[i] EXCEPT !.pc = outcome]
    /\ analysis_threads' = RemoveAt(analysis_threads, i)
    /\ emergency_active' = FALSE
    /\ emergency_start_time' = NoneTime
    /\ UNCHANGED <<clock, last_ts, fps, fall_duration_frames,
                   still_frames_needed, frame_count, max_severity,
                   total_detections, current_people_count, aws_services,
                   emergency_data, store_calls, frame_status,
                   observerVars, scorerVars, patternVars,
                   twinVars, trackVars, emergency_severity_threshold,
                   gemini_analyzer, total_emergencies, last_emergency_data,
                   signalVars,
                   cameraVars>>

\* lines 826-850 of thread i: the analyzer answers and the thread writes
\* last_ai_analysis and ends.
AnalysisFinish(i, outcome) ==
    /\ i \in 1..Len(analysis_threads)
    /\ analysis_threads[i].pc = "request"
    /\ last_ai_analysis' = AnalysisRecord(outcome, last_emergency_data)
    /\ completed' = [analysis_threads[i] EXCEPT !.pc = outcome]
    /\ analysis_threads' = RemoveAt(analysis_threads, i)
    /\ UNCHANGED <<emergencyVars, observerVars, scorerVars, patternVars,
                   twinVars, trackVars, emergency_severity_threshold,
                   gemini_analyzer, total_emergencies, last_emergency_data,
                   signalVars,
                   cameraVars>>

\* The camera delivers its frames MaxDt seconds apart.
GeminiFrame(res, aws_ok) ==
    /\ frame_count < MaxGeminiFrames
    /\ PoseFrame(res, MaxDt, aws_ok)

NextGemini ==
    \/ \E res \in PoseResults :
           \E aws_ok \in AwsOutcomes(aws_services) :
               GeminiFrame(res, aws_ok)
    \/ \E i \in 1..Len(analysis_threads), outcome \in EncodeOutcomes :
           AnalysisEncode(i, outcome)
    \/ \E i \in 1..Len(analysis_threads), outcome \in AnalyzerOutcomes :
           AnalysisFinish(i, outcome)

\* The thresholds EMERGENCY_SEVERITY_THRESHOLD is given in the environment
\* (line 62-64): the default, and one the stored maximum severity reaches.
SeverityThresholds == {1, EMERGENCY_SEVERITY_THRESHOLD}

InitGeminiSpec ==
    /\ InitEmergency
    /\ InitObservers
    /\ InitScorerIdle
    /\ InitPattern({"pose"})
    /\ InitTwin
    /\ InitTrack
    /\ emergency_severity_threshold \in SeverityThresholds
    /\ gemini_analyzer \in BOOLEAN
    /\ total_emergencies = 0
    /\ last_emergency_data = NoEmergencyData
    /\ last_ai_analysis = NoAnalysis
    /\ analysis_threads = << >>
    /\ completed = NoThread
    /\ InitSignal
    /\ InitCamera

SpecGemini == InitGeminiSpec /\ [][NextGemini]_vars

C35_AnalysisWritesOnlyItsResult ==
    [][ frame_count' = frame_count
          => /\ emergency_active' = emergency_active
             /\ emergency_start_time' = emergency_start_time
             /\ total_emergencies' = total_emergencies
             /\ max_severity' = max_severity
             /\ last_emergency_data' = last_emergency_data
             /\ TrackMaps' = TrackMaps
      ]_vars

\* A thread ended with a success record while the next emergency of the
\* frame loop was active and another thread was still running.
C35_Witness ==
    /\ completed.pc = "success"
    /\ last_ai_analysis.kind = "analysis"
    /\ emergency_active
    /\ emergency_start_time # NoneTime
    /\ total_emergencies >= 2
    /\ analysis_threads # << >>

\* C22: every analyze_with_gemini thread ends by writing last_ai_analysis:
\* an analysis record when the analyzer reported success, an error record
\* when it reported failure or when encoding or the analyzer raised.
C22_AnalysisAlwaysWrites ==
    completed.pc # "none" =>
        /\ last_ai_analysis.kind # "None"
        /\ completed.pc = "success" <=> last_ai_analysis.kind = "analysis"
        /\ completed.pc \in {"failure", "raises", "raised"}
               <=> last_ai_analysis.kind = "error"

\* The analyzer raised in a thread and the thread wrote the error record.
C22_Witness ==
    /\ completed.pc = "raises"
    /\ last_ai_analysis.kind = "error"
    /\ analysis_threads # << >>

-----------------------------------------------------------------------------
(* Two detectors that differ only in what storage does (SpecStore)         *)

\* The second detector was constructed without AWS services
\* (init_aws_services returned None, lines 96-98): it is the reference that
\* no AWS call can disturb.
InitStoreTwin == twin = [clock |-> 0, detector |-> InitDetector(FALSE)]

\* The first detector has AWS services, so that its calls can fail.
InitStore ==
    /\ InitEmergency
    /\ aws_services
    /\ InitObservers
    /\ InitScorerIdle
    /\ InitPattern({"backend"})
    /\ InitStoreTwin
    /\ InitTrack
    /\ InitGemini
    /\ InitSignal
    /\ InitCamera

\* Both detectors process the same frame at the same clock readings; each
\* AWS call of the first succeeds or fails.
StoreFrame(dets, dt, lag, aws_ok, twin_ok) ==
    /\ clock + dt + lag <= MaxClock
    /\ twin.clock = clock
    /\ LET now == clock + dt
           t   == now + lag
       IN  \E r \in {ProcessFrameResult(Detector, dets, now, t, aws_ok)} :
               /\ clock' = t
               /\ SetDetector(r)
               /\ cycle_verified' = NextCycleVerified(cycle_verified, r.emergency_data)
               /\ dip' = NextDip(dip, Detector, r, t)
               /\ post' = NextPost(post, r, t)
               /\ persisted' = NextPersisted(persisted, r)
    /\ twin' = TwinProcessFrame(dets, dt, lag, twin_ok)
    /\ UNCHANGED <<scorerVars, patternVars, trackVars,
                   geminiVars, signalVars,
                   cameraVars>>

NextStore ==
    \E dets \in DetectionLists, dt \in 1..MaxDt, lag \in 0..MaxLag :
        \E aws_ok \in FrameAwsOutcomes(Detector, dets) :
            \E twin_ok \in FrameAwsOutcomes(twin.detector, dets) :
                StoreFrame(dets, dt, lag, aws_ok, twin_ok)

SpecStore == InitStore /\ [][NextStore]_vars

\* C11: for the same severities and the same clock readings process_frame
\* emits the same event types and leaves the same emergency_active and
\* emergency_start_time whether the storage calls succeed, fail inside the
\* AWS call, or AWS is unavailable: a detector whose calls succeed or fail
\* agrees on every frame with one that has no AWS services, and a failed
\* call yields no error event.
C11_StorageFailureDoesNotAffectFsm ==
    /\ twin.detector.emergency_data.type = emergency_data.type
    /\ twin.detector.emergency_active = emergency_active
    /\ twin.detector.emergency_start_time = emergency_start_time
    /\ emergency_data.type # "error"

\* An alert frame on which put_object and put_item both failed, while the
\* second detector has no AWS services at all.
C11_Witness ==
    /\ emergency_data.type = "emergency_alert"
    /\ emergency_data.video_url = "None"
    /\ Len(store_calls) = 2
    /\ store_calls[2].result = "failed"
    /\ twin.detector.emergency_data.type = "emergency_alert"
    /\ twin.detector.emergency_data.video_url = "demo-video-url"

-----------------------------------------------------------------------------
(* The per-track signal functions on short histories (SpecSignals)         *)

\* Every list of at most n elements of S.
Histories(S, n) == UNION { [1..k -> S] : k \in 0..n }

\* int(y1) of a person box over consecutive frames: steps of 0, 17, 20 and
\* 27 pixels and more, on both sides of the thresholds of lines 200-209.
HeadSamples == {100, 117, 137, 164}

\* (center_x, center_y) of a person box: steps straight down, steeply down,
\* sideways with a drop of 3 pixels, and flat.
PositionSamples ==
    { <<100, 100>>, <<100, 110>>, <<102, 160>>, <<120, 163>>, <<140, 173>> }

\* (width, height) of a person box, upright and lying.
BoxSizes == { <<80, 160>>, <<240, 120>> }

\* The cap of line 266 of the pose variant left out.
CapAngleNone(angle) == angle

\* min(angle, 85), line 266 of the pose variant.
CapAngle(angle) == Min(angle, 8500)

\* Lines 257-274 of the pose variant: the angles read off the last i steps
\* of the positions, in hundredths of a degree.
RECURSIVE PoseStepAngles(_, _)
PoseStepAngles(positions, i) ==
    IF i = 0 THEN << >>
    ELSE LET n     == Len(positions)
             dx    == positions[n - i + 1][1] - positions[n - i][1]
             dy    == positions[n - i + 1][2] - positions[n - i][2]
             rest  == PoseStepAngles(positions, i - 1)
             steep == ArctanDegrees(Abs(dy), Abs(dx))
             tilt  == ArctanDegrees(Abs(dx), Abs(dy))
         IN  IF dy > 3
             THEN IF Abs(dx) > 1
                  THEN IF steep > 3000 THEN Append(rest, CapAngle(steep))
                       ELSE rest
                  ELSE Append(rest, 8500)
             ELSE IF Abs(dx) > 8 /\ dy > 2 THEN Append(rest, Min(tilt, 6000))
             ELSE rest

\* lines 243-287 of the pose variant: calculate_angle; positions is
\* person_positions[pid], or the empty list when the track has none.
CalculateAnglePose(positions) ==
    IF Len(positions) < 4
    THEN [angle |-> 0, stored |-> FALSE]
    ELSE LET found == PoseStepAngles(positions, Min(3, Len(positions) - 1))
         IN  IF found = << >>
             THEN [angle |-> 0, stored |-> FALSE]
             ELSE [angle |-> Trunc(SumOver(found, Len(found)), Len(found)),
                   stored |-> TRUE]

\* A call of calculate_angle of src/backend/simple_backend.py on a track
\* whose head positions are heads; angles is person_angles[pid], empty
\* until a call has found an angle.
CallCalculateAngle(heads, angles) ==
    /\ signal_call = NoSignalCall
    /\ Len(heads) < 5 => angles = << >>
    /\ \E r \in {CalculateAngle(heads, angles)} :
           signal_call' = [fn |-> "calculate_angle", history |-> heads,
                           result |-> <<r.angle, r.angular_velocity>>]
    /\ UNCHANGED <<emergencyVars, observerVars, scorerVars, patternVars,
                   twinVars, trackVars, geminiVars, cameraVars>>

\* A call of calculate_angle of the pose variant.
CallCalculateAnglePose(positions) ==
    /\ signal_call = NoSignalCall
    /\ signal_call' = [fn |-> "calculate_angle_pose", history |-> positions,
                       result |-> <<CalculateAnglePose(positions).angle>>]
    /\ UNCHANGED <<emergencyVars, observerVars, scorerVars, patternVars,
                   twinVars, trackVars, geminiVars, cameraVars>>

\* A call of calculate_velocity on a track that had the positions before
\* it and no velocity yet.
CallCalculateVelocity(positions, new_position) ==
    /\ signal_call = NoSignalCall
    /\ Len(positions) < MaxSignalLen
    /\ \E r \in {CalculateVelocity(positions, << >>, << >>, new_position)} :
           signal_call' = [fn |-> "calculate_velocity", history |-> r.positions,
                           result |-> <<r.velocity, r.acceleration>>]
    /\ UNCHANGED <<emergencyVars, observerVars, scorerVars, patternVars,
                   twinVars, trackVars, geminiVars, cameraVars>>

\* A call of detect_head_downward_motion; process_frame has stored the head
\* position of the frame before it (lines 610-617).
CallDetectHeadDownwardMotion(heads) ==
    /\ signal_call = NoSignalCall
    /\ signal_call' = [fn |-> "detect_head_downward_motion", history |-> heads,
                       result |-> <<DetectHeadDownwardMotion(heads)>>]
    /\ UNCHANGED <<emergencyVars, observerVars, scorerVars, patternVars,
                   twinVars, trackVars, geminiVars, cameraVars>>

\* A call of detect_body_shape_change on a track that had the aspect
\* ratios of the boxes before it.
CallDetectBodyShapeChange(boxes, box) ==
    /\ signal_call = NoSignalCall
    /\ Len(boxes) < MaxSignalLen
    /\ LET ratios == [i \in 1..Len(boxes) |-> Trunc(100 * boxes[i][1], boxes[i][2])]
       IN  \E r \in {DetectBodyShapeChange(ratios, box[1], box[2])} :
               signal_call' = [fn |-> "detect_body_shape_change",
                               history |-> r.aspect_ratios,
                               result |-> <<r.score>>]
    /\ UNCHANGED <<emergencyVars, observerVars, scorerVars, patternVars,
                   twinVars, trackVars, geminiVars, cameraVars>>

\* Each behaviour is one call: the functions keep no state between calls
\* but the histories they are handed.
NextSignals ==
    \/ signal_call = NoSignalCall /\ \E heads \in Histories(HeadSamples, MaxSignalLen) :
           \E angles \in {<< >>, <<6000, 7500, 8500>>} :
               CallCalculateAngle(heads, angles)
    \/ signal_call = NoSignalCall /\ \E positions \in Histories(PositionSamples, MaxSignalLen) :
           CallCalculateAnglePose(positions)
    \/ signal_call = NoSignalCall /\ \E positions \in Histories(PositionSamples, MaxSignalLen) :
           \E new_position \in PositionSamples :
               CallCalculateVelocity(positions, new_position)
    \/ signal_call = NoSignalCall /\ \E heads \in Histories(HeadSamples, MaxSignalLen) :
           CallDetectHeadDownwardMotion(heads)
    \/ signal_call = NoSignalCall /\ \E boxes \in Histories(BoxSizes, MaxSignalLen) :
           \E box \in BoxSizes :
               CallDetectBodyShapeChange(boxes, box)

SpecSignals == InitTrackSpec /\ [][NextSignals]_vars

\* C33: the fallback angle calculate_angle returns lies within 0 and 85
\* degrees for every history, in both variants, a step without any
\* horizontal displacement included.
C33_FallbackAngleCapped ==
    signal_call.fn \in {"calculate_angle", "calculate_angle_pose"}
        => signal_call.result[1] \in 0..8500

\* The pose variant returns 85 on positions whose last step is steeper than
\* 85 degrees and whose step before has no horizontal displacement.
C33_Witness ==
    LET h == signal_call.history
        n == Len(h)
    IN  /\ signal_call.fn = "calculate_angle_pose"
        /\ n >= 4
        /\ Abs(h[n][1] - h[n - 1][1]) > 1
        /\ ArctanDegrees(h[n][2] - h[n - 1][2], Abs(h[n][1] - h[n - 1][1])) > 8500
        /\ h[n - 1][1] = h[n - 2][1]
        /\ h[n - 1][2] - h[n - 2][2] > 3
        /\ signal_call.result[1] = 8500

\* C34: with insufficient history the signal functions return neutral
\* values: calculate_velocity (0, 0) with fewer than 5 positions,
\* calculate_angle (0, 0) with fewer than 5 head positions,
\* detect_body_shape_change 0 with fewer than 5 aspect ratios and
\* detect_head_downward_motion 0 with fewer than 3 head positions.
C34_InsufficientHistoryNeutral ==
    LET n == Len(signal_call.history)
    IN  /\ signal_call.fn = "calculate_velocity" /\ n < 5
            => signal_call.result = <<0, 0>>
        /\ signal_call.fn = "calculate_angle" /\ n < 5
            => signal_call.result = <<0, 0>>
        /\ signal_call.fn = "detect_body_shape_change" /\ n < 5
            => signal_call.result = <<0>>
        /\ signal_call.fn = "detect_head_downward_motion" /\ n < 3
            => signal_call.result = <<0>>

\* detect_head_downward_motion returns 0 on two head positions 64 pixels
\* apart.
C34_Witness ==
    /\ signal_call.fn = "detect_head_downward_motion"
    /\ Len(signal_call.history) = 2
    /\ signal_call.history[2] - signal_call.history[1] > 25
    /\ signal_call.result = <<0>>

-----------------------------------------------------------------------------
(* start_camera, stop_camera and the camera_loop threads (SpecCamera)      *)
(*                                                                         *)
(* The routes of lines 887-895 run in the threads of the server, one per   *)
(* request, so calls overlap; no lock guards camera_active or cap.  A step *)
(* is one read or write of a field of the detector.                        *)

\* What the frames of the camera show: nobody, or one person who has
\* fallen.
CameraDetections == { << >>, <<[severity |-> 8, velocity |-> 2500, angle |-> 8500]>> }

\* The threads that have not ended.
Alive == { i \in 1..Len(camera_threads) : camera_threads[i] # "done" }

\* The threads inside process_frame (line 827).
InProcessFrame == { i \in 1..Len(camera_threads) : camera_threads[i] = "process" }

StartInProgress == \E r \in 1..Len(requests) : requests[r].kind = "start"

\* A request arrives at one of the two routes.
Request(kind) ==
    /\ issued < MaxRequests
    /\ Len(requests) < MaxInFlight
    /\ requests' = Append(requests, [kind |-> kind,
                                     pc |-> IF kind = "start" THEN "check"
                                            ELSE "deactivate"])
    /\ issued' = issued + 1
    /\ stop_returned' = (stop_returned /\ kind # "start")
    /\ UNCHANGED <<camera_active, cap, camera_threads, further_frames>>
    /\ UNCHANGED <<emergencyVars, observerVars, scorerVars, patternVars,
                   twinVars, trackVars, geminiVars, signalVars>>

\* lines 811-812: start_camera reads camera_active and returns False if it
\* is set.
StartCheck(r) ==
    /\ r \in 1..Len(requests)
    /\ requests[r].kind = "start" /\ requests[r].pc = "check"
    /\ requests' = IF camera_active THEN RemoveAt(requests, r)
                   ELSE [requests EXCEPT ![r].pc = "open"]
    /\ UNCHANGED <<camera_active, cap, issued, camera_threads,
                   stop_returned, further_frames>>
    /\ UNCHANGED <<emergencyVars, observerVars, scorerVars, patternVars,
                   twinVars, trackVars, geminiVars, signalVars>>

\* lines 814-816: a new capture replaces self.cap; start_camera returns
\* False if the device did not open.
StartOpen(r, opened) ==
    /\ r \in 1..Len(requests)
    /\ requests[r].kind = "start" /\ requests[r].pc = "open"
    /\ cap' = IF opened THEN "open" ELSE "closed"
    /\ requests' = IF opened THEN [requests EXCEPT ![r].pc = "activate"]
                   ELSE RemoveAt(requests, r)
    /\ UNCHANGED <<camera_active, issued, camera_threads,
                   stop_returned, further_frames>>
    /\ UNCHANGED <<emergencyVars, observerVars, scorerVars, patternVars,
                   twinVars, trackVars, geminiVars, signalVars>>

\* line 818
StartActivate(r) ==
    /\ r \in 1..Len(requests)
    /\ requests[r].kind = "start" /\ requests[r].pc = "activate"
    /\ camera_active' = TRUE
    /\ requests' = [requests EXCEPT ![r].pc = "spawn"]
    /\ UNCHANGED <<cap, issued, camera_threads, stop_returned, further_frames>>
    /\ UNCHANGED <<emergencyVars, observerVars, scorerVars, patternVars,
                   twinVars, trackVars, geminiVars, signalVars>>

\* lines 832-836: the camera_loop thread starts at its loop test and
\* start_camera returns True.
StartSpawn(r) ==
    /\ r \in 1..Len(requests)
    /\ requests[r].kind = "start" /\ requests[r].pc = "spawn"
    /\ camera_threads' = Append(camera_threads, "test")
    /\ further_frames' = Append(further_frames, 0)
    /\ requests' = RemoveAt(requests, r)
    /\ UNCHANGED <<camera_active, cap, issued, stop_returned>>
    /\ UNCHANGED <<emergencyVars, observerVars, scorerVars, patternVars,
                   twinVars, trackVars, geminiVars, signalVars>>

\* line 840
StopDeactivate(r) ==
    /\ r \in 1..Len(requests)
    /\ requests[r].kind = "stop" /\ requests[r].pc = "deactivate"
    /\ camera_active' = FALSE
    /\ requests' = [requests EXCEPT ![r].pc = "release"]
    /\ UNCHANGED <<cap, issued, camera_threads, stop_returned, further_frames>>
    /\ UNCHANGED <<emergencyVars, observerVars, scorerVars, patternVars,
                   twinVars, trackVars, geminiVars, signalVars>>

\* lines 841-843: the capture is released and stop_camera returns.
StopRelease(r) ==
    /\ r \in 1..Len(requests)
    /\ requests[r].kind = "stop" /\ requests[r].pc = "release"
    /\ cap' = IF cap = "None" THEN cap ELSE "closed"
    /\ requests' = RemoveAt(requests, r)
    /\ stop_returned' = \A q \in 1..Len(requests) : requests[q].kind # "start"
    /\ further_frames' = IF stop_returned THEN further_frames
                         ELSE [i \in 1..Len(further_frames) |-> 0]
    /\ UNCHANGED <<camera_active, issued, camera_threads>>
    /\ UNCHANGED <<emergencyVars, observerVars, scorerVars, patternVars,
                   twinVars, trackVars, geminiVars, signalVars>>

\* line 821: the loop test of thread i.
LoopTest(i) ==
    /\ i \in 1..Len(camera_threads)
    /\ camera_threads[i] = "test"
    /\ camera_threads' = [camera_threads EXCEPT
                              ![i] = IF camera_active THEN "read" ELSE "done"]
    /\ UNCHANGED <<camera_active, cap, requests, issued,
                   stop_returned, further_frames>>
    /\ UNCHANGED <<emergencyVars, observerVars, scorerVars, patternVars,
                   twinVars, trackVars, geminiVars, signalVars>>

\* What self.cap.read() can return: a released capture, or one that never
\* opened, delivers no frame; an open one delivers a frame or fails.  The
\* camera delivers MaxCameraFrames frames at most.
ReadOutcomes ==
    IF cap = "open"
       /\ frame_count + Cardinality(InProcessFrame) < MaxCameraFrames
    THEN {TRUE, FALSE}
    ELSE {FALSE}

\* lines 822-824 of thread i: with a frame the thread enters process_frame,
\* without one it leaves the loop.
LoopRead(i, ret) ==
    /\ i \in 1..Len(camera_threads)
    /\ camera_threads[i] = "read"
    /\ ret \in ReadOutcomes
    /\ camera_threads' = [camera_threads EXCEPT
                              ![i] = IF ret THEN "process" ELSE "done"]
    /\ UNCHANGED <<camera_active, cap, requests, issued,
                   stop_returned, further_frames>>
    /\ UNCHANGED <<emergencyVars, observerVars, scorerVars, patternVars,
                   twinVars, trackVars, geminiVars, signalVars>>

\* A loop that works off the frames the capture has buffered before it
\* tests camera_active again.
LoopProcessBacklog(i, dets) ==
    /\ i \in 1..Len(camera_threads)
    /\ camera_threads[i] = "process"
    /\ LET t == clock + MaxDt
       IN  \E r \in {ProcessFrameResult(Detector, dets, t, t, [s3 |-> TRUE, dynamodb |-> TRUE])} :
               /\ clock' = t
               /\ SetDetector(r)
               /\ cycle_verified' = NextCycleVerified(cycle_verified, r.emergency_data)
               /\ dip' = NextDip(dip, Detector, r, t)
               /\ post' = NextPost(post, r, t)
               /\ persisted' = NextPersisted(persisted, r)
    /\ camera_threads' = [camera_threads EXCEPT
                              ![i] = IF frame_count + 1 < MaxCameraFrames
                                     THEN "process" ELSE "test"]
    /\ further_frames' = [further_frames EXCEPT
                              ![i] = IF stop_returned THEN @ + 1 ELSE @]
    /\ UNCHANGED <<camera_active, cap, requests, issued, stop_returned>>
    /\ UNCHANGED <<scorerVars, patternVars, twinVars, trackVars,
                   geminiVars, signalVars>>

\* lines 827-829 of thread i: process_frame on the frame read, MaxDt
\* seconds after the frame before it, then the sleep.
LoopProcess(i, dets) ==
    /\ i \in 1..Len(camera_threads)
    /\ camera_threads[i] = "process"
    /\ LET t == clock + MaxDt
       IN  \E r \in {ProcessFrameResult(Detector, dets, t, t, [s3 |-> TRUE, dynamodb |-> TRUE])} :
               /\ clock' = t
               /\ SetDetector(r)
               /\ cycle_verified' = NextCycleVerified(cycle_verified, r.emergency_data)
               /\ dip' = NextDip(dip, Detector, r, t)
               /\ post' = NextPost(post, r, t)
               /\ persisted' = NextPersisted(persisted, r)
    /\ camera_threads' = [camera_threads EXCEPT ![i] = "test"]
    /\ further_frames' = [further_frames EXCEPT
                              ![i] = IF stop_returned THEN @ + 1 ELSE @]
    /\ UNCHANGED <<camera_active, cap, requests, issued, stop_returned>>
    /\ UNCHANGED <<scorerVars, patternVars, twinVars, trackVars,
                   geminiVars, signalVars>>

NextCamera ==
    \/ \E kind \in {"start", "stop"} : Request(kind)
    \/ \E r \in 1..MaxInFlight : StartCheck(r)
    \/ \E r \in 1..MaxInFlight : \E opened \in BOOLEAN : StartOpen(r, opened)
    \/ \E r \in 1..MaxInFlight : StartActivate(r)
    \/ \E r \in 1..MaxInFlight : StartSpawn(r)
    \/ \E r \in 1..MaxInFlight : StopDeactivate(r)
    \/ \E r \in 1..MaxInFlight : StopRelease(r)
    \/ \E i \in 1..MaxRequests : LoopTest(i)
    \/ \E i \in 1..MaxRequests : \E ret \in BOOLEAN : LoopRead(i, ret)
    \/ \E i \in 1..MaxRequests : \E dets \in CameraDetections : LoopProcess(i, dets)

SpecCamera == InitTrackSpec /\ [][NextCamera]_vars

\* C37: under every interleaving of start_camera and stop_camera calls at
\* most one camera_loop thread is inside process_frame at any time.
C37_OneLoopInProcessFrame == Cardinality(InProcessFrame) <= 1

\* C38: camera_active reflects the loop: when it is set and no start_camera
\* is in progress, a camera_loop thread is alive.
C38_ActiveMeansLoopAlive ==
    (camera_active /\ ~StartInProgress) => Alive # {}

\* The scheduler runs every thread that can take a step: the camera_loop
\* threads are daemon threads of the server process, and self.cap.read()
\* returns, with or without a frame.
LoopStep(i) ==
    \/ LoopTest(i)
    \/ \E ret \in BOOLEAN : LoopRead(i, ret)
    \/ \E dets \in CameraDetections : LoopProcess(i, dets)

SpecCameraLive ==
    InitTrackSpec /\ [][NextCamera]_vars
        /\ \A i \in 1..MaxRequests : WF_vars(LoopStep(i))

\* C39: once stop_camera has returned and no start_camera has been in
\* progress since, every camera_loop thread completes at most one further
\* process_frame step and ends, and from then on frame_count,
\* total_detections and the emergency state do not change.
C39_LoopEndsAfterStop ==
    /\ [](stop_returned
            => \A i \in 1..Len(further_frames) : further_frames[i] <= 1)
    /\ [](stop_returned => <>(Alive = {} \/ ~stop_returned))
    /\ [][ (stop_returned /\ Alive = {} /\ stop_returned')
             => UNCHANGED <<frame_count, total_detections, emergency_active,
                            emergency_start_time, emergency_data, max_severity>>
         ]_vars

\* stop_camera returned while a thread was inside process_frame: the thread
\* completed that step and ended, after two frames.
C39_Witness ==
    /\ stop_returned
    /\ camera_threads # << >>
    /\ Alive = {}
    /\ \E i \in 1..Len(further_frames) : further_frames[i] = 1
    /\ frame_count >= 2
    /\ ~camera_active

====
